---- MODULE Spec2Model ----
(***************************************************************************)
(* A model of PyFMask (mtralka/PyFMask): the Fmask 4 pixel classifier for  *)
(* Landsat-8 / Sentinel-2 scenes.                                          *)
(*                                                                         *)
(* Rasters are functions (or sets, for boolean masks) over a pixel index   *)
(* set.  Floating point values are modelled as exact rationals <<n, d>>    *)
(* with d > 0 in lowest terms.  numpy / scikit-image primitives            *)
(* (percentile, binary_erosion, binary_dilation, label,                    *)
(* remove_small_objects) are modelled by what they compute.                *)
(*                                                                         *)
(* Several specifications share the variables:                             *)
(*   SpecErode    erode_commissons applied twice to a cloud mask           *)
(*   SpecAux      FMask._extract_aux_data (DEM source selection)           *)
(*   SpecClouds   detect_potential_cloud_pixels + detect_potential_clouds  *)
(*   SpecMatch    match_cloud_shadows                                      *)
(*   SpecCompose  the dilation and composition tail of FMask.run           *)
(*   Spec         FMask.run, stage by stage, on a small scene grid         *)
(***************************************************************************)
EXTENDS Integers, Naturals, Sequences, FiniteSets, TLC

VARIABLES
    phase,      \* position of the running specification in its operation
    ecArgs,     \* erode_commissons: [cdi, cloud, pfp, water, erode_pixels]
    ecOut,      \* erode_commissons: outputs of successive applications
    fmask,      \* FMask object: use_mapzen, dem_path, gswo_path, dem_data, gswo_data
    auxLog,     \* extract_aux_data calls made by the last _extract_aux_data
    runs,       \* number of times _extract_aux_data has run on the object
    settings,   \* FMask object: dilated_*_px and the four class values
    layers,     \* FMask object: nodata_mask, water, snow, cloud_shadow, cloud
    results,    \* FMask object: self.results (None before composition)
    platform_data, \* FMask object: platform_data and dem_data (a scene)
    composites,    \* FMask object: ndvi, ndsi, ndbi, snow, water
    cloud_pixels,  \* FMask object: self.potential_cloud_pixels
    clouds,        \* FMask object: self.potential_clouds
    matchArgs,     \* match_cloud_shadows: its arguments
    matchOut,      \* match_cloud_shadows: the returned raster (None before)
    infile,        \* the scene read from the input file by every run
    rng,           \* state of numpy's global random generator
    est,           \* normalize_bt: the last sm.OLS(...).fit() (None before)
    history,       \* PotentialClouds returned by the completed runs
    callArgs,      \* arguments of the function under test
    callOut        \* its result (None before the call)

erodeVars == <<ecArgs, ecOut>>
auxVars == <<fmask, auxLog, runs>>
runVars == <<settings, layers, results>>
cloudVars == <<platform_data, composites, cloud_pixels, clouds>>
matchVars == <<matchArgs, matchOut>>
repeatVars == <<infile, rng, est, history>>
callVars == <<callArgs, callOut>>

vars == <<phase, erodeVars, auxVars, runVars, cloudVars, matchVars, repeatVars,
          callVars>>

\* the variables of the specifications that are not running
erodeIdle == ecArgs = <<>> /\ ecOut = <<>>
auxIdle == fmask = <<>> /\ auxLog = <<>> /\ runs = 0
runIdle == settings = <<>> /\ layers = <<>> /\ results = <<>>
matchIdle == matchArgs = <<>> /\ matchOut = <<>>
repeatIdle == infile = <<>> /\ rng = 0 /\ est = <<>> /\ history = <<>>
callIdle == callArgs = <<>> /\ callOut = <<>>
cloudIdle ==
    platform_data = <<>> /\ composites = <<>> /\ cloud_pixels = <<>> /\ clouds = <<>>

\* Python's Optional: None is the empty tuple, a present value x is <<x>>
None == <<>>
Some(x) == <<x>>
Get(o) == o[1]

\* F applied to the value of v: v is computed once, then named
Let(v, F(_)) == CHOOSE r \in {F(x) : x \in {v}} : TRUE

----------------------------------------------------------------------------
(* Bounds of the model *)

\* the scene grid of the raster specifications is GridSide x GridSide pixels
GridSide == 3
\* cloud masks given to erode_commissons: the grid minus at most MaxHoles
\* pixels, or at most MaxBlob pixels
MaxHoles == 3
MaxBlob == 2
\* erode_pixels ranges over 0..MaxErode
MaxErode == 1

----------------------------------------------------------------------------
(* Floating-point values as exact rationals <<n, d>> in lowest terms with  *)
(* d >= 0: <<1, 0>> is +inf, <<-1, 0>> is -inf and <<0, 0>> is NaN, with   *)
(* the IEEE rules for them; rounding is not modelled                       *)

Abs(x) == IF x < 0 THEN -x ELSE x
Sign(x) == IF x < 0 THEN -1 ELSE IF x > 0 THEN 1 ELSE 0

RECURSIVE GCD(_, _)
GCD(a, b) == IF b = 0 THEN a ELSE GCD(b, a % b)

NaN == <<0, 0>>
Inf == <<1, 0>>
IsNaN(a) == a = NaN

R(n, d) ==
    IF d = 0 THEN <<Sign(n), 0>>
    ELSE LET g == GCD(Abs(n), Abs(d))
             s == IF d < 0 THEN -1 ELSE 1
         IN  <<(s * n) \div g, (s * d) \div g>>

RInt(n) == <<n, 1>>
RNeg(a) == <<-a[1], a[2]>>
RAdd(a, b) ==
    IF a[2] = 0 /\ b[2] = 0 THEN (IF a = b THEN a ELSE NaN)
    ELSE R(a[1] * b[2] + b[1] * a[2], a[2] * b[2])
RSub(a, b) == RAdd(a, RNeg(b))
RMul(a, b) == R(a[1] * b[1], a[2] * b[2])
RInv(a) == IF a[1] < 0 THEN <<-a[2], -a[1]>> ELSE <<a[2], a[1]>>
RDiv(a, b) == RMul(a, RInv(b))
\* a < b; finite values are compared by their integer parts first
RLt(a, b) ==
    IF a[2] = 0 /\ b[2] = 0 THEN ~IsNaN(a) /\ ~IsNaN(b) /\ a[1] < b[1]
    ELSE IF a[2] = 0 \/ b[2] = 0 THEN a[1] * b[2] < b[1] * a[2]
    ELSE \/ a[1] \div a[2] < b[1] \div b[2]
         \/ /\ a[1] \div a[2] = b[1] \div b[2]
            /\ (a[1] % a[2]) * b[2] < (b[1] % b[2]) * a[2]
RLe(a, b) == ~IsNaN(a) /\ ~IsNaN(b) /\ ~RLt(b, a)
\* np.maximum / np.minimum: NaN propagates
RMax(a, b) == IF IsNaN(a) \/ IsNaN(b) THEN NaN ELSE IF RLt(a, b) THEN b ELSE a
RMin(a, b) == IF IsNaN(a) \/ IsNaN(b) THEN NaN ELSE IF RLt(b, a) THEN b ELSE a
RAbs(a) == <<Abs(a[1]), a[2]>>

\* two's-complement wrap of np.int16 arithmetic
Wrap16(x) == ((x + 32768) % 65536) - 32768

----------------------------------------------------------------------------
(* The scene grid and scikit-image morphology on boolean masks *)

Rows == 0 .. (GridSide - 1)
Cols == 0 .. (GridSide - 1)
Pix == Rows \X Cols

\* skimage.morphology.disk(radius): offsets within the Euclidean radius
disk(radius) ==
    {o \in (-radius .. radius) \X (-radius .. radius) :
        o[1] * o[1] + o[2] * o[2] <= radius * radius}

\* skimage.morphology.square(width), width = 2 * k + 1, as offsets
square(width) ==
    LET k == (width - 1) \div 2
    IN  (-k .. k) \X (-k .. k)

Shift(p, o) == <<p[1] + o[1], p[2] + o[2]>>

\* skimage binary_erosion: pixels outside the image count as set
binary_erosion(image, footprint) ==
    Let(footprint, LAMBDA fp :
        {p \in Pix : \A o \in fp :
            Shift(p, o) \notin Pix \/ Shift(p, o) \in image})

\* skimage binary_dilation: pixels outside the image count as unset
binary_dilation(image, footprint) ==
    Let(footprint, LAMBDA fp :
        {p \in Pix : \E o \in fp : Shift(p, o) \in image})

Adjacent8(p, q) == Abs(p[1] - q[1]) <= 1 /\ Abs(p[2] - q[2]) <= 1

\* the 8-connected component(s) of image that meet seed
RECURSIVE Flood(_, _)
Flood(seed, image) ==
    Let(seed \cup {q \in image : \E p \in seed : Adjacent8(p, q)}, LAMBDA next :
        IF next = seed THEN seed ELSE Flood(next, image))

\* raster-scan rank of a pixel
Rank(p) == p[1] * GridSide + p[2]
FirstPixel(c) == CHOOSE q \in c : \A q2 \in c : Rank(q) <= Rank(q2)

\* the 8-connected components of a mask
RECURSIVE Components(_)
Components(image) ==
    IF image = {} THEN {}
    ELSE Let(Flood({FirstPixel(image)}, image), LAMBDA c :
             {c} \cup Components(image \ c))

\* skimage.measure.label(image, connectivity=2): 0 on the background; each
\* 8-connected component gets one positive number (here 1 + the rank of its
\* first pixel in raster order, which orders components as skimage does)
label(image) ==
    Let({<<c, 1 + Rank(FirstPixel(c))>> : c \in Components(image)},
        LAMBDA numbered :
        [p \in Pix |->
            IF p \notin image THEN 0
            ELSE (CHOOSE n \in numbered : p \in n[1])[2]])

\* skimage.morphology.remove_small_objects(image, min_size, connectivity=2)
remove_small_objects(image, min_size) ==
    Let(Components(image), LAMBDA comps :
        {p \in Pix : \E c \in comps : p \in c /\ Cardinality(c) >= min_size})

\* np.isin(labels, idx) as a mask
isin(labels, idx) == {p \in Pix : labels[p] \in idx}

----------------------------------------------------------------------------
(* raster_utilities/morphology.py *)

\* area from which remove_small_objects keeps an object in erode_commissons
large_object_size == 10000
\* smallest object erode_commissons keeps when CDI is present
very_small_object_size == 3

\* erode_land_and_water without the intersection with the remaining labels
erode_land_and_water_no_remaining(cloud, potential_false_positives, water, erode_pixels) ==
    Let(binary_erosion(cloud, disk(erode_pixels)), LAMBDA eroded :
    Let({p \in Pix : p \notin eroded /\ p \in potential_false_positives},
        LAMBDA pixels_eroded :
    Let(cloud \ pixels_eroded, LAMBDA clouds_after_erosion :
    Let(binary_dilation(clouds_after_erosion, disk(2 * erode_pixels)),
        LAMBDA clouds_redilated :
        clouds_redilated \cup (water \cap cloud)))))

\* erode_land_and_water with the input cloud in place of the remaining
\* labels
erode_land_and_water_any_label(cloud, potential_false_positives, water, erode_pixels) ==
    Let(binary_erosion(cloud, disk(erode_pixels)), LAMBDA eroded :
    Let({p \in Pix : p \notin eroded /\ p \in potential_false_positives},
        LAMBDA pixels_eroded :
    Let(cloud \ pixels_eroded, LAMBDA clouds_after_erosion :
    Let(binary_dilation(clouds_after_erosion, disk(2 * erode_pixels)),
        LAMBDA clouds_redilated :
        (clouds_redilated \cap cloud) \cup (water \cap cloud)))))

\* (D and R) or (water and cloud): the cleaned cloud before the CDI gate
erode_land_and_water(cloud, potential_false_positives, water, erode_pixels) ==
    Let(binary_erosion(cloud, disk(erode_pixels)), LAMBDA eroded :
    Let({p \in Pix : p \notin eroded /\ p \in potential_false_positives},
        LAMBDA pixels_eroded :
    Let(cloud \ pixels_eroded, LAMBDA clouds_after_erosion :
    Let(binary_dilation(clouds_after_erosion, disk(2 * erode_pixels)),
        LAMBDA clouds_redilated :
    Let(label(cloud), LAMBDA cloud_labels :
    Let({cloud_labels[p] : p \in clouds_after_erosion} \ {0},
        LAMBDA idx_clouds_remaining :
    Let(isin(cloud_labels, idx_clouds_remaining), LAMBDA cloud_remaining :
        (clouds_redilated \cap cloud_remaining) \cup (water \cap cloud))))))))

\* the Sentinel-2 gate: small objects need one pixel with CDI < -0.5
remove_small_unconfident(cdi, cloud) ==
    Let(remove_small_objects(cloud, large_object_size), LAMBDA large_objects :
    Let(cloud \ large_objects, LAMBDA small_objects :
    Let(label(small_objects), LAMBDA small_object_labels :
    Let({p \in Pix : RLt(cdi[p], <<-1, 2>>)}, LAMBDA confident_cloud_pixels :
    Let({IF p \notin confident_cloud_pixels THEN 0 ELSE small_object_labels[p] :
            p \in Pix}, LAMBDA idx :
    Let(isin(small_object_labels, idx), LAMBDA true_cloud :
    Let({p \in Pix : p \notin true_cloud /\ p \in small_objects},
        LAMBDA bright_surfaces :
        remove_small_objects(cloud \ bright_surfaces, very_small_object_size))))))))

erode_commissons(cdi, potential_clouds, potential_false_positives, water, erode_pixels) ==
    Let(erode_land_and_water(potential_clouds, potential_false_positives,
                             water, erode_pixels), LAMBDA cloud :
        IF cdi = None THEN cloud ELSE remove_small_unconfident(Get(cdi), cloud))

----------------------------------------------------------------------------
(* SpecErode: erode_commissons applied to a cloud mask, then to its output *)

SubsetsUpTo(S, k) == {x \in SUBSET S : Cardinality(x) <= k}

CloudShapes ==
    {Pix \ h : h \in SubsetsUpTo(Pix, MaxHoles)} \cup SubsetsUpTo(Pix, MaxBlob)

\* false-positive candidates: none, everywhere, everywhere but one corner
PfpChoices == {{}, Pix, Pix \ {<<0, 0>>}}

\* water: none, or the last column of the grid
WaterChoices == {{}, {p \in Pix : p[2] = GridSide - 1}}

\* CDI rasters: absent (Landsat-8), or -0.6 at one corner and -0.2 elsewhere
CdiChoices ==
    {None,
     Some([p \in Pix |-> IF p = <<0, 0>> THEN <<-3, 5>> ELSE <<-1, 5>>])}

InitErode ==
    /\ phase = "erode"
    /\ ecArgs \in [cdi : CdiChoices, cloud : CloudShapes, pfp : PfpChoices,
                   water : WaterChoices, erode_pixels : 0 .. MaxErode]
    /\ ecOut = <<>>
    /\ auxIdle
    /\ runIdle
    /\ cloudIdle
    /\ matchIdle
    /\ repeatIdle
    /\ callIdle

ErodeFirst ==
    /\ phase = "erode"
    /\ ecOut = <<>>
    /\ ecOut' = <<erode_commissons(ecArgs.cdi, ecArgs.cloud, ecArgs.pfp,
                                   ecArgs.water, ecArgs.erode_pixels)>>
    /\ UNCHANGED <<phase, ecArgs, auxVars, runVars, cloudVars, matchVars,
                   repeatVars, callVars>>

ErodeAgain ==
    /\ phase = "erode"
    /\ Len(ecOut) = 1
    /\ ecOut' = Append(ecOut, erode_commissons(ecArgs.cdi, ecOut[1], ecArgs.pfp,
                                               ecArgs.water, ecArgs.erode_pixels))
    /\ UNCHANGED <<phase, ecArgs, auxVars, runVars, cloudVars, matchVars,
                   repeatVars, callVars>>

NextErode == ErodeFirst \/ ErodeAgain

SpecErode == InitErode /\ [][NextErode]_vars

\* C5 (as claimed): erode_commissons is idempotent: applied to its own output
\* (same false positives, water, CDI and radius) it returns that output
C5_Idempotent == Len(ecOut) = 2 => ecOut[2] = ecOut[1]

\* C5 (amended): a second application of erode_commissons never adds a pixel
\* to the first output, and with erode radius 0 it returns the first output
C5_SecondPassShrinks ==
    Len(ecOut) = 2 =>
        /\ ecOut[2] \subseteq ecOut[1]
        /\ ecArgs.erode_pixels = 0 => ecOut[2] = ecOut[1]

\* the second application has run with radius >= 1 and dropped a fragment of
\* the first output while keeping the rest
C5_Witness ==
    /\ Len(ecOut) = 2
    /\ ecArgs.erode_pixels >= 1
    /\ ecOut[2] # {}
    /\ ecOut[2] # ecOut[1]
    /\ ecOut[2] \subseteq ecOut[1]

----------------------------------------------------------------------------
(* Scenes.  A scene is a set of cells, each with its band values and a     *)
(* weight: the number of pixels of the scene that carry those values.  On  *)
(* the GridSide x GridSide grid the cells are the pixels, each of weight   *)
(* 1.  A raster is a function over the cells, a mask is a set of cells.    *)

Cells(scene) == DOMAIN scene.weight

RECURSIVE Count(_, _)
\* np.sum(mask): the number of pixels in the cells of mask
Count(scene, mask) ==
    IF mask = {} THEN 0
    ELSE LET c == CHOOSE c \in mask : TRUE
         IN  scene.weight[c] + Count(scene, mask \ {c})

\* the value at (0-based) rank i of the sorted values of raster over mask
Sorted(scene, raster, mask, i) ==
    LET c == CHOOSE c \in mask :
                /\ Count(scene, {d \in mask : RLt(raster[d], raster[c])}) <= i
                /\ i < Count(scene, {d \in mask : ~RLt(raster[c], raster[d])})
    IN  raster[c]

\* np.percentile(raster[mask], 100 * qn / qd), linear interpolation; NaN on
\* an empty selection or on a selection that holds a NaN
percentile(scene, raster, mask, qn, qd) ==
    Let(Count(scene, mask), LAMBDA n :
        IF n = 0 \/ \E c \in mask : IsNaN(raster[c]) THEN NaN
        ELSE LET up == 2 * qn <= qd
                 k == IF up THEN (n - 1) * qn ELSE (n - 1) * (qd - qn)
                 whole == k % qd = 0
                 lo == IF up THEN k \div qd
                       ELSE IF whole THEN (n - 1) - (k \div qd)
                       ELSE (n - 1) - (k \div qd) - 1
                 frac == IF whole THEN <<0, 1>>
                         ELSE IF up THEN R(k % qd, qd)
                         ELSE R(qd - (k % qd), qd)
             IN  IF whole THEN Sorted(scene, raster, mask, lo)
                 ELSE Let(Sorted(scene, raster, mask, lo), LAMBDA a :
                      Let(Sorted(scene, raster, mask, lo + 1), LAMBDA b :
                          RAdd(a, RMul(frac, RSub(b, a))))))

\* int(x): truncation towards zero
Trunc(a) == Sign(a[1]) * (Abs(a[1]) \div a[2])

----------------------------------------------------------------------------
(* raster_utilities/composites.py *)

\* 1 / eps, eps = 1e-7
eps_inverse == 10000000

\* n / (s + eps) for np.int16 n and s: eps only shows where s = 0
DivEps(n, s) == IF s = 0 THEN <<n * eps_inverse, 1>> ELSE R(n, s)

create_ndvi(scene) ==
    [c \in Cells(scene) |->
        LET b == scene.band_data[c]
        IN  DivEps(Wrap16(b.NIR - b.RED), Wrap16(b.NIR + b.RED))]

create_ndsi(scene) ==
    [c \in Cells(scene) |->
        LET b == scene.band_data[c]
        IN  DivEps(Wrap16(b.GREEN - b.SWIR1), Wrap16(b.GREEN + b.SWIR1))]

create_ndbi(scene) ==
    [c \in Cells(scene) |->
        LET b == scene.band_data[c]
        IN  DivEps(Wrap16(b.SWIR1 - b.NIR), Wrap16(b.SWIR1 + b.NIR))]

----------------------------------------------------------------------------
(* detectors/snow.py, detectors/water.py *)

detect_snow(scene, ndsi) ==
    {c \in Cells(scene) :
        LET b == scene.band_data[c]
        IN  /\ RLt(<<3, 20>>, ndsi[c])
            /\ b.NIR > 1100
            /\ b.GREEN > 1000
            /\ scene.bt # None => RLt(Get(scene.bt)[c], RInt(1000))}

\* detect_water without GSWO data: water and all_water are the same mask
detect_water(scene, ndvi) ==
    {c \in Cells(scene) :
        LET nir == scene.band_data[c].NIR
        IN  /\ \/ RLt(ndvi[c], <<1, 100>>) /\ nir < 1100
               \/ RLt(ndvi[c], <<1, 10>>) /\ RLt(<<0, 1>>, ndvi[c]) /\ nir < 500
            /\ c \notin scene.nodata_mask}

----------------------------------------------------------------------------
(* detectors/cloud/potential_cloud_pixels.py *)

\* DEM no-data value
dem_nodata == -9999

RECURSIVE cirrus_strata(_, _, _, _, _, _, _)
\* the loop of normalize_cirrus_dem over k = dem_start, dem_start + 100, ...
cirrus_strata(scene, cirrus, valid_clear_sky, k, stop, cirrus_lowest, normalized_cirrus) ==
    IF k >= stop THEN normalized_cirrus
    ELSE
    Let({c \in Cells(scene) : RLe(RInt(k), cirrus[c]) /\ RLt(cirrus[c], RInt(k + 100))},
        LAMBDA mm :
    Let(mm \cap valid_clear_sky, LAMBDA mm_clear :
    Let(IF Count(scene, mm_clear) > 0
        THEN percentile(scene, cirrus, mm_clear, 2, 100) ELSE cirrus_lowest,
        LAMBDA lowest :
        cirrus_strata(scene, cirrus, valid_clear_sky, k + 100, stop, lowest,
            [c \in Cells(scene) |->
                IF c \notin scene.nodata_mask /\ c \in mm
                THEN RSub(cirrus[c], lowest) ELSE normalized_cirrus[c]]))))

\* normalized_cirrus[normalized_cirrus < 0] = 0
clip_negative(raster) ==
    [c \in DOMAIN raster |-> IF RLt(raster[c], <<0, 1>>) THEN <<0, 1>> ELSE raster[c]]

normalize_cirrus_dem(scene, potential_pixels) ==
    Let(Get(scene.cirrus), LAMBDA cirrus :
    Let((Cells(scene) \ potential_pixels) \ scene.nodata_mask, LAMBDA valid_clear_sky :
    Let(IF scene.dem = None THEN {}
        ELSE {c \in Cells(scene) : Get(scene.dem)[c] # dem_nodata}, LAMBDA dem_mask :
        IF scene.dem = None \/ Count(scene, dem_mask) < 100
        THEN Let(percentile(scene, cirrus, valid_clear_sky, 2, 100), LAMBDA percent :
                clip_negative([c \in Cells(scene) |->
                    IF c \notin scene.nodata_mask
                    THEN RSub(cirrus[c], percent) ELSE <<0, 1>>]))
        ELSE Let([c \in Cells(scene) |-> RInt(Get(scene.dem)[c])], LAMBDA dem :
             Let(Trunc(percentile(scene, dem, dem_mask, 1, 100000)), LAMBDA dem_start :
             Let(Trunc(percentile(scene, dem, dem_mask, 99999, 100000)), LAMBDA dem_end :
                clip_negative(cirrus_strata(scene, cirrus, valid_clear_sky,
                    dem_start, dem_end + 100, <<0, 1>>,
                    [c \in Cells(scene) |-> <<0, 1>>]))))))))

\* whiteness of one cell, zeroed where a visible band is saturated
whiteness_of(scene, c) ==
    LET b == scene.band_data[c]
        visible_mean == R(Wrap16(Wrap16(b.BLUE + b.GREEN) + b.RED), 3)
        spread == RAdd(RAdd(RAbs(RSub(RInt(b.BLUE), visible_mean)),
                            RAbs(RSub(RInt(b.GREEN), visible_mean))),
                       RAbs(RSub(RInt(b.RED), visible_mean)))
    IN  IF c \in scene.vis_saturation THEN <<0, 1>>
        ELSE RDiv(spread, visible_mean)

\* hot = blue - 0.5 * red - 800
hot_of(scene, c) ==
    LET b == scene.band_data[c]
    IN  RSub(RSub(RInt(b.BLUE), R(b.RED, 2)), RInt(800))

\* steps 1-4 of detect_potential_cloud_pixels on one cell
spectral_tests(scene, ndsi, ndvi, c) ==
    LET b == scene.band_data[c]
    IN  /\ RLt(ndsi[c], <<4, 5>>)
        /\ RLt(ndvi[c], <<4, 5>>)
        /\ b.SWIR2 > 300
        /\ scene.bt # None => RLt(Get(scene.bt)[c], RInt(2700))
        /\ RLt(whiteness_of(scene, c), <<7, 10>>)
        /\ (RLt(<<0, 1>>, hot_of(scene, c)) \/ c \in scene.vis_saturation)
        /\ RLt(<<3, 4>>, RDiv(RInt(b.NIR), RInt(b.SWIR1)))

\* the PotentialCloudPixels record
detect_potential_cloud_pixels(scene, ndsi, ndvi) ==
    Let({c \in Cells(scene) : spectral_tests(scene, ndsi, ndvi, c)}, LAMBDA tested :
    Let(IF scene.cirrus # None
        THEN Some(normalize_cirrus_dem(scene, tested)) ELSE None,
        LAMBDA normalized_cirrus :
        [potential_pixels |->
            IF normalized_cirrus = None THEN tested
            ELSE tested \cup {c \in Cells(scene) :
                                RLt(RInt(100), Get(normalized_cirrus)[c])},
         normalized_cirrus |-> normalized_cirrus,
         whiteness |-> [c \in Cells(scene) |-> whiteness_of(scene, c)],
         hot |-> [c \in Cells(scene) |-> hot_of(scene, c)]]))

----------------------------------------------------------------------------
(* detectors/cloud/potential_clouds.py *)

clear_pixels_threshold == 40000
\* total_sample of normalize_bt
total_sample == 40000

\* platform constants PROBABILITY_WEIGHT and CLOUD_THRESHOLD
thin_cirrus_weight(scene) ==
    IF scene.sensor = "L08_OLI" THEN <<3, 10>> ELSE <<1, 2>>
cloud_probability_threshold(scene) ==
    IF scene.sensor = "L08_OLI" THEN <<35, 2>> ELSE <<20, 1>>

\* np.where(raster > 1, 1, raster)
clip_above_one(raster) ==
    [c \in DOMAIN raster |-> IF RLt(<<1, 1>>, raster[c]) THEN <<1, 1>> ELSE raster[c]]

\* the outcomes of sm.OLS(...).fit() on the randomly drawn sample: a single
\* parameter, or a lapse rate with a significant or insignificant p-value
FitChoices ==
    {[constant_only |-> TRUE, rate_lapse |-> <<0, 1>>, significant |-> FALSE],
     [constant_only |-> FALSE, rate_lapse |-> <<-1, 2>>, significant |-> TRUE],
     [constant_only |-> FALSE, rate_lapse |-> <<-1, 2>>, significant |-> FALSE],
     [constant_only |-> FALSE, rate_lapse |-> <<1, 2>>, significant |-> TRUE]}

\* normalize_bt: Some(raster), or None where the division by
\* num_strata_avail = 0 raises ZeroDivisionError
normalize_bt(scene, bt, idused, fit) ==
    Let([c \in Cells(scene) |-> RInt(Get(scene.dem)[c])], LAMBDA dem :
    Let({c \in Cells(scene) : dem[c] # RInt(dem_nodata) /\ bt[c] # RInt(-9999)},
        LAMBDA dem_mask :
        IF Count(scene, dem_mask) < 100 THEN Some(bt)
        ELSE
        Let(percentile(scene, dem, dem_mask, 1, 1000000), LAMBDA dem_b :
        Let(percentile(scene, dem, dem_mask, 99999, 100000), LAMBDA dem_t :
        Let(percentile(scene, bt, idused, 7, 40), LAMBDA temp_min :
        Let(percentile(scene, bt, idused, 33, 40), LAMBDA temp_max :
        Let({c \in idused \cap dem_mask :
                RLt(temp_min, bt[c]) /\ RLt(bt[c], temp_max)}, LAMBDA mm :
        Let(Cardinality({j \in 0 .. Trunc(RDiv(RSub(dem_t, dem_b), RInt(300))) + 1 :
                LET k == RAdd(dem_b, RInt(300 * j))
                IN  /\ RLt(k, RAdd(dem_t, RInt(300)))
                    /\ \E c \in mm : RLe(k, dem[c])
                                     /\ RLt(dem[c], RAdd(k, RInt(300)))}),
            LAMBDA num_strata_avail :
            IF num_strata_avail = 0 THEN None
            ELSE IF 2 * total_sample <= num_strata_avail THEN Some(bt)
            ELSE IF fit.constant_only THEN Some(bt)
            ELSE IF RLt(fit.rate_lapse, <<0, 1>>) /\ fit.significant
            THEN Some([c \in Cells(scene) |->
                        IF c \in dem_mask
                        THEN RSub(bt[c], RMul(fit.rate_lapse, RSub(dem[c], dem_b)))
                        ELSE bt[c]])
            ELSE Some(bt)))))))))

water_temperature_probability(scene, bt, clear_water_mask) ==
    Let(percentile(scene, bt, clear_water_mask, 33, 40), LAMBDA bt_percentile :
        clip_negative([c \in Cells(scene) |->
            RDiv(RSub(bt_percentile, bt[c]), RInt(400))]))

\* water_brightness_probability without the clamp at 1
water_brightness_probability_unbounded(scene) ==
    clip_negative([c \in Cells(scene) |-> R(scene.band_data[c].SWIR1, 1100)])

water_brightness_probability(scene) ==
    clip_negative(clip_above_one(
        [c \in Cells(scene) |-> R(scene.band_data[c].SWIR1, 1100)]))

\* land_temperature_probability without the clamp at 0
land_temperature_probability_unclamped(scene, bt_normalized_dem, idused) ==
    Let(percentile(scene, bt_normalized_dem, idused, 7, 40), LAMBDA low_percentile :
    Let(percentile(scene, bt_normalized_dem, idused, 33, 40), LAMBDA high_percentile :
    Let(RSub(low_percentile, RInt(400)), LAMBDA temp_test_low :
    Let(RAdd(high_percentile, RInt(400)), LAMBDA temp_test_high :
        [probability |->
            [c \in Cells(scene) |->
                RDiv(RSub(temp_test_high, bt_normalized_dem[c]),
                     RSub(temp_test_high, temp_test_low))],
         temp_test_low |-> temp_test_low,
         temp_test_high |-> temp_test_high]))))

land_temperature_probability(scene, bt_normalized_dem, idused) ==
    Let(percentile(scene, bt_normalized_dem, idused, 7, 40), LAMBDA low_percentile :
    Let(percentile(scene, bt_normalized_dem, idused, 33, 40), LAMBDA high_percentile :
    Let(RSub(low_percentile, RInt(400)), LAMBDA temp_test_low :
    Let(RAdd(high_percentile, RInt(400)), LAMBDA temp_test_high :
        [probability |->
            clip_negative([c \in Cells(scene) |->
                RDiv(RSub(temp_test_high, bt_normalized_dem[c]),
                     RSub(temp_test_high, temp_test_low))]),
         temp_test_low |-> temp_test_low,
         temp_test_high |-> temp_test_high]))))

land_brightness_probability_hot(scene, hot, idused) ==
    Let(RSub(percentile(scene, hot, idused, 7, 40), RInt(400)),
        LAMBDA low_hot_percentile :
    Let(RAdd(percentile(scene, hot, idused, 33, 40), RInt(400)),
        LAMBDA high_hot_percentile :
        clip_above_one(clip_negative([c \in Cells(scene) |->
            RDiv(RSub(hot[c], low_hot_percentile),
                 RSub(high_hot_percentile, low_hot_percentile))]))))

spectral_variance_probability(scene, ndsi, ndvi, ndbi, whiteness) ==
    [c \in Cells(scene) |->
        LET sat == c \in scene.vis_saturation
            ndsi0 == IF sat /\ RLt(ndsi[c], <<0, 1>>) THEN <<0, 1>> ELSE ndsi[c]
            ndvi0 == IF sat /\ RLt(<<0, 1>>, ndvi[c]) THEN <<0, 1>> ELSE ndvi[c]
        IN  RSub(<<1, 1>>,
                 RMax(RMax(RMax(RAbs(ndsi0), RAbs(ndvi0)), RAbs(ndbi[c])),
                      whiteness[c]))]

\* a scalar 1 broadcast over the raster
ones(scene) == [c \in Cells(scene) |-> <<1, 1>>]

\* the comparison of the early return, with < in place of <=
guard_applies_strict(sum_clear_pixels) ==
    sum_clear_pixels < clear_pixels_threshold

guard_applies(sum_clear_pixels) ==
    sum_clear_pixels <= clear_pixels_threshold

\* the early return of detect_potential_clouds
guard_return(scene, clear_pixels) ==
    [status |-> "guard",
     sum_clear_pixels |-> Count(scene, clear_pixels),
     cloud |-> clear_pixels \ scene.nodata_mask,
     temp_test_low |-> <<0, 1>>,
     temp_test_high |-> <<0, 1>>,
     clear_land |-> {},
     bt_normalized_dem |-> None,
     over_land_probability |-> Some([c \in Cells(scene) |-> <<100, 1>>]),
     over_water_probability |-> Some([c \in Cells(scene) |-> <<100, 1>>]),
     land_probability_temperature |-> None,
     land_probability_brightness |-> None,
     over_land_probability_variance |-> None,
     over_water_probability_temperature |-> None,
     over_water_probability_brightness |-> None]

\* normalize_bt raised: detect_potential_clouds returns nothing
raised(scene, clear_pixels) ==
    [guard_return(scene, clear_pixels) EXCEPT
        !.status = "ZeroDivisionError", !.cloud = {},
        !.over_land_probability = None, !.over_water_probability = None]

\* detect_potential_clouds from the thin cloud probability onwards, given
\* the DEM normalised BT (None where BT or the DEM is missing)
full_return(scene, pcp, water, ndsi, ndvi, ndbi, clear_pixels, idused, bt_normalized_dem) ==
    Let(clear_pixels \ water, LAMBDA clear_land_mask :
    Let(clear_pixels \cap water, LAMBDA clear_water_mask :
    Let(IF scene.cirrus # None
        THEN clip_negative([c \in Cells(scene) |->
                RDiv(Get(scene.cirrus)[c], RInt(400))])
        ELSE [c \in Cells(scene) |-> <<0, 1>>], LAMBDA probability_thin_cloud :
    Let(IF bt_normalized_dem # None
        THEN Some(land_temperature_probability(scene, Get(bt_normalized_dem), idused))
        ELSE None, LAMBDA temperature :
    Let(IF bt_normalized_dem # None THEN None
        ELSE Some(land_brightness_probability_hot(scene, pcp.hot, idused)),
        LAMBDA land_probability_brightness :
    Let(spectral_variance_probability(scene, ndsi, ndvi, ndbi, pcp.whiteness),
        LAMBDA over_land_probability_variance :
    Let(IF scene.bt # None /\ Count(scene, clear_water_mask) > 100
        THEN Some(water_temperature_probability(scene, Get(scene.bt), clear_water_mask))
        ELSE None, LAMBDA over_water_probability_temperature :
    Let(water_brightness_probability(scene), LAMBDA over_water_probability_brightness :
    Let([c \in Cells(scene) |->
            RMul(RInt(100),
                 RAdd(RMul(RMul(IF temperature # None
                                THEN Get(temperature).probability[c] ELSE <<1, 1>>,
                                over_land_probability_variance[c]),
                           IF land_probability_brightness # None
                           THEN Get(land_probability_brightness)[c] ELSE <<1, 1>>),
                      RMul(thin_cirrus_weight(scene), probability_thin_cloud[c])))],
        LAMBDA over_land_probability :
    Let([c \in Cells(scene) |->
            RMul(RInt(100),
                 RAdd(RMul(IF over_water_probability_temperature # None
                           THEN Get(over_water_probability_temperature)[c]
                           ELSE <<1, 1>>,
                           over_water_probability_brightness[c]),
                      RMul(thin_cirrus_weight(scene), probability_thin_cloud[c])))],
        LAMBDA over_water_probability :
    Let(IF Count(scene, clear_water_mask) > 0
        THEN percentile(scene, over_water_probability, clear_water_mask, 33, 40)
        ELSE <<0, 1>>, LAMBDA wclr_h :
    Let(IF Count(scene, clear_land_mask) > 0
        THEN percentile(scene, over_land_probability, clear_land_mask, 33, 40)
        ELSE <<0, 1>>, LAMBDA clr_h :
    Let(RAdd(wclr_h, cloud_probability_threshold(scene)), LAMBDA dynamic_water_max :
    Let(RAdd(clr_h, cloud_probability_threshold(scene)), LAMBDA dynamic_land_max :
    Let(IF temperature # None THEN Get(temperature).temp_test_low ELSE <<0, 1>>,
        LAMBDA temp_test_low :
    Let({c \in Cells(scene) :
            \/ /\ c \in pcp.potential_pixels
               /\ \/ RLt(dynamic_land_max, over_land_probability[c]) /\ c \notin water
                  \/ RLt(dynamic_water_max, over_water_probability[c]) /\ c \in water
            \/ /\ bt_normalized_dem # None
               /\ RLt(Get(bt_normalized_dem)[c], RSub(temp_test_low, RInt(3500)))},
        LAMBDA id_final_cld :
        [status |-> "full",
         sum_clear_pixels |-> Count(scene, clear_pixels),
         cloud |-> id_final_cld \ scene.nodata_mask,
         temp_test_low |-> temp_test_low,
         temp_test_high |-> IF temperature # None
                            THEN Get(temperature).temp_test_high ELSE <<0, 1>>,
         clear_land |-> idused,
         bt_normalized_dem |-> bt_normalized_dem,
         over_land_probability |-> Some(over_land_probability),
         over_water_probability |-> Some(over_water_probability),
         land_probability_temperature |->
            IF temperature # None THEN Some(Get(temperature).probability) ELSE None,
         land_probability_brightness |-> land_probability_brightness,
         over_land_probability_variance |-> Some(over_land_probability_variance),
         over_water_probability_temperature |-> over_water_probability_temperature,
         over_water_probability_brightness |->
            Some(over_water_probability_brightness)]))))))))))))))))

detect_potential_clouds(scene, pcp, water, ndsi, ndvi, ndbi, fit) ==
    Let((Cells(scene) \ pcp.potential_pixels) \ scene.nodata_mask,
        LAMBDA clear_pixels :
        IF guard_applies(Count(scene, clear_pixels))
        THEN guard_return(scene, clear_pixels)
        ELSE
        Let(IF 1000 * Count(scene, clear_pixels \ water)
                >= Count(scene, Cells(scene) \ scene.nodata_mask)
            THEN clear_pixels \ water ELSE clear_pixels, LAMBDA idused :
            IF scene.bt # None /\ scene.dem # None
            THEN Let(normalize_bt(scene, Get(scene.bt), idused, fit),
                     LAMBDA bt_normalized_dem :
                     IF bt_normalized_dem = None THEN raised(scene, clear_pixels)
                     ELSE full_return(scene, pcp, water, ndsi, ndvi, ndbi,
                                      clear_pixels, idused, bt_normalized_dem))
            ELSE full_return(scene, pcp, water, ndsi, ndvi, ndbi,
                             clear_pixels, idused, None)))

----------------------------------------------------------------------------
(* SpecClouds: _create_spectral_composites, snow and water detection and   *)
(* _run_cloud_detection up to the potential clouds, on scenes made of a    *)
(* few kinds of surface, each covering a number of pixels.                 *)

\* most kinds of surface in one scene
MaxKinds == 3

\* the kinds of surface: reflectance x 10000, brightness temperature in
\* 0.01 degrees Celsius, elevation in metres, and the pixels covered; the
\* platform stores NO_DATA = -9999 in every band of a nodata pixel
Palette ==
    [veg        |-> [BLUE |-> 400, GREEN |-> 600, RED |-> 400, NIR |-> 3000,
                     SWIR1 |-> 1500, SWIR2 |-> 200, BT |-> 2000, CIRRUS |-> 10,
                     dem |-> 100, pixels |-> 40000],
     grass      |-> [BLUE |-> 500, GREEN |-> 700, RED |-> 500, NIR |-> 3000,
                     SWIR1 |-> 1600, SWIR2 |-> 200, BT |-> 1800, CIRRUS |-> 10,
                     dem |-> 100, pixels |-> 20000],
     bare       |-> [BLUE |-> 1000, GREEN |-> 1200, RED |-> 1400, NIR |-> 2000,
                     SWIR1 |-> 2500, SWIR2 |-> 2000, BT |-> 2500, CIRRUS |-> 10,
                     dem |-> 400, pixels |-> 20000],
     soil       |-> [BLUE |-> 1000, GREEN |-> 1200, RED |-> 1400, NIR |-> 2000,
                     SWIR1 |-> 2500, SWIR2 |-> 2000, BT |-> 3000, CIRRUS |-> 10,
                     dem |-> 100, pixels |-> 1],
     cloud      |-> [BLUE |-> 9000, GREEN |-> 9000, RED |-> 9000, NIR |-> 9000,
                     SWIR1 |-> 5000, SWIR2 |-> 4000, BT |-> 1500, CIRRUS |-> 10,
                     dem |-> 700, pixels |-> 1600],
     water      |-> [BLUE |-> 500, GREEN |-> 400, RED |-> 300, NIR |-> 200,
                     SWIR1 |-> 100, SWIR2 |-> 100, BT |-> 1200, CIRRUS |-> 10,
                     dem |-> 0, pixels |-> 200],
     cloudwater |-> [BLUE |-> 3000, GREEN |-> 3000, RED |-> 3000, NIR |-> 1000,
                     SWIR1 |-> 900, SWIR2 |-> 400, BT |-> 0, CIRRUS |-> 10,
                     dem |-> 0, pixels |-> 50],
     red        |-> [BLUE |-> 100, GREEN |-> 100, RED |-> 2800, NIR |-> 3000,
                     SWIR1 |-> 2000, SWIR2 |-> 1000, BT |-> 2200, CIRRUS |-> 10,
                     dem |-> 100, pixels |-> 1],
     ice        |-> [BLUE |-> 8000, GREEN |-> 8000, RED |-> 8000, NIR |-> 7000,
                     SWIR1 |-> 500, SWIR2 |-> 200, BT |-> -4000, CIRRUS |-> 10,
                     dem |-> 100, pixels |-> 1],
     haze       |-> [BLUE |-> 400, GREEN |-> 600, RED |-> 400, NIR |-> 3000,
                     SWIR1 |-> 1500, SWIR2 |-> 200, BT |-> 2000, CIRRUS |-> 500,
                     dem |-> 100, pixels |-> 100],
     urban      |-> [BLUE |-> 1600, GREEN |-> 1700, RED |-> 1800, NIR |-> 2000,
                     SWIR1 |-> 2500, SWIR2 |-> 2000, BT |-> 2600, CIRRUS |-> 10,
                     dem |-> 100, pixels |-> 300],
     nodata     |-> [BLUE |-> -9999, GREEN |-> -9999, RED |-> -9999,
                     NIR |-> -9999, SWIR1 |-> -9999, SWIR2 |-> -9999,
                     BT |-> -9999, CIRRUS |-> -9999,
                     dem |-> -9999, pixels |-> 500]]

Kinds == DOMAIN Palette

\* Landsat 8 carries BT and CIRRUS, Sentinel-2 carries CIRRUS only
Sensors == {"L08_OLI", "S2_MSI"}

\* no DEM, the DEM of the palette, a DEM without a valid elevation
DemChoices == {"none", "valid", "empty"}

\* the platform data and DEM of a scene of the given kinds
MakeScene(sensor, dem_choice, kinds) ==
    [sensor |-> sensor,
     band_data |-> [c \in kinds |->
        [BLUE |-> Palette[c].BLUE, GREEN |-> Palette[c].GREEN,
         RED |-> Palette[c].RED, NIR |-> Palette[c].NIR,
         SWIR1 |-> Palette[c].SWIR1, SWIR2 |-> Palette[c].SWIR2]],
     bt |-> IF sensor = "L08_OLI"
            THEN Some([c \in kinds |-> RInt(Palette[c].BT)]) ELSE None,
     cirrus |-> Some([c \in kinds |-> RInt(Palette[c].CIRRUS)]),
     vis_saturation |-> {},
     nodata_mask |-> kinds \cap {"nodata"},
     weight |-> [c \in kinds |-> Palette[c].pixels],
     dem |-> IF dem_choice = "none" THEN None
             ELSE IF dem_choice = "valid" THEN Some([c \in kinds |-> Palette[c].dem])
             ELSE Some([c \in kinds |-> dem_nodata])]

SceneChoices ==
    {MakeScene(sensor, dem_choice, kinds) :
        sensor \in Sensors, dem_choice \in DemChoices,
        kinds \in SubsetsUpTo(Kinds, MaxKinds) \ {{}}}

InitClouds ==
    /\ phase = "start"
    /\ platform_data \in SceneChoices
    /\ composites = None
    /\ cloud_pixels = None
    /\ clouds = None
    /\ erodeIdle
    /\ auxIdle
    /\ runIdle
    /\ matchIdle
    /\ repeatIdle
    /\ callIdle

\* CreateSpectralComposites with a snow detector that clips the negative
\* GREEN values in the band itself instead of in a copy
CreateSpectralCompositesInPlace ==
    /\ phase = "start"
    /\ phase' = "composites"
    /\ composites' =
        Let(create_ndvi(platform_data), LAMBDA ndvi :
        Let(create_ndsi(platform_data), LAMBDA ndsi :
            Some([ndvi |-> ndvi, ndsi |-> ndsi, ndbi |-> create_ndbi(platform_data),
                  snow |-> detect_snow(platform_data, ndsi),
                  water |-> detect_water(platform_data, ndvi)])))
    /\ platform_data' = [platform_data EXCEPT !.band_data =
            [c \in DOMAIN @ |-> [@[c] EXCEPT !.GREEN = IF @ < 0 THEN 0 ELSE @]]]
    /\ UNCHANGED <<cloud_pixels, clouds, erodeVars, auxVars, runVars, matchVars,
                   repeatVars, callVars>>

\* run(): _create_spectral_composites, detect_snow, detect_water
CreateSpectralComposites ==
    /\ phase = "start"
    /\ phase' = "composites"
    /\ composites' =
        Let(create_ndvi(platform_data), LAMBDA ndvi :
        Let(create_ndsi(platform_data), LAMBDA ndsi :
            Some([ndvi |-> ndvi, ndsi |-> ndsi, ndbi |-> create_ndbi(platform_data),
                  snow |-> detect_snow(platform_data, ndsi),
                  water |-> detect_water(platform_data, ndvi)])))
    /\ UNCHANGED <<platform_data, cloud_pixels, clouds, erodeVars, auxVars, runVars, matchVars,
                   repeatVars, callVars>>

\* _run_cloud_detection: detect_potential_cloud_pixels and the update of
\* the CIRRUS band
DetectPotentialCloudPixels ==
    /\ phase = "composites"
    /\ phase' = "pixels"
    /\ \E found \in {detect_potential_cloud_pixels(platform_data, Get(composites).ndsi,
                                                   Get(composites).ndvi)} :
        /\ cloud_pixels' = Some(found)
        /\ platform_data' = IF platform_data.cirrus # None
                    THEN [platform_data EXCEPT !.cirrus = found.normalized_cirrus]
                    ELSE platform_data
    /\ UNCHANGED <<composites, clouds, erodeVars, auxVars, runVars, matchVars,
                   repeatVars, callVars>>

\* _run_cloud_detection: detect_potential_clouds and the update of the BT
\* band; an exception leaves the object as it was
DetectPotentialClouds ==
    /\ phase = "pixels"
    /\ \E fit \in FitChoices :
       \E found \in {detect_potential_clouds(platform_data, Get(cloud_pixels), Get(composites).water,
                        Get(composites).ndsi, Get(composites).ndvi,
                        Get(composites).ndbi, fit)} :
        IF found.status = "ZeroDivisionError"
        THEN /\ phase' = "raised"
             /\ UNCHANGED <<platform_data, clouds>>
        ELSE /\ phase' = "clouds"
             /\ clouds' = Some(found)
             /\ platform_data' = IF platform_data.bt # None /\ found.bt_normalized_dem # None
                         THEN [platform_data EXCEPT !.bt = found.bt_normalized_dem]
                         ELSE platform_data
    /\ UNCHANGED <<composites, cloud_pixels, erodeVars, auxVars, runVars, matchVars,
                   repeatVars, callVars>>

NextClouds ==
    \/ CreateSpectralComposites
    \/ DetectPotentialCloudPixels
    \/ DetectPotentialClouds

SpecClouds == InitClouds /\ [][NextClouds]_vars

\* the clear pixels of the scene: not PCP and not nodata
ClearPixels ==
    (Cells(platform_data) \ Get(cloud_pixels).potential_pixels)
        \ platform_data.nodata_mask

\* raster holds value at every cell of the scene
Everywhere(raster, value) ==
    \A c \in Cells(platform_data) : raster[c] = value

\* raster lies within [0, 1] at every cell
WithinUnit(raster) ==
    \A c \in Cells(platform_data) :
        RLe(<<0, 1>>, raster[c]) /\ RLe(raster[c], <<1, 1>>)

NormalisedBT ==
    IF Get(clouds).bt_normalized_dem # None
    THEN Get(clouds).bt_normalized_dem ELSE platform_data.bt

\* C4: a pixel of the returned cloud mask that is not a potential cloud
\* pixel is an extremely cold one: BT is present and the normalised BT is
\* below temp_test_low - 3500.
C4_CloudWithinPCP ==
    phase = "clouds" =>
        \A c \in Get(clouds).cloud :
            \/ c \in Get(cloud_pixels).potential_pixels
            \/ /\ NormalisedBT # None
               /\ RLt(Get(NormalisedBT)[c],
                      RSub(Get(clouds).temp_test_low, RInt(3500)))

\* C9 as stated: over_land_probability is >= 0 at every pixel.
C9_NeverNegative ==
    phase = "clouds" =>
        \A c \in Cells(platform_data) :
            RLe(<<0, 1>>, Get(Get(clouds).over_land_probability)[c])

\* C9: past the guard, over_land_probability is >= 0 at every pixel whose
\* spectral variance probability is >= 0, that is where none of |NDSI|,
\* |NDVI|, |NDBI| and whiteness exceeds 1.
C9_NonNegativeWhereVarianceIs ==
    (phase = "clouds" /\ Get(clouds).status = "full") =>
        \A c \in Cells(platform_data) :
            RLe(<<0, 1>>, Get(Get(clouds).over_land_probability_variance)[c])
            => RLe(<<0, 1>>, Get(Get(clouds).over_land_probability)[c])

\* a scene past the guard with a temperature probability, a pixel of
\* positive land probability and a pixel of negative variance probability
C9_Witness ==
    /\ phase = "clouds"
    /\ Get(clouds).status = "full"
    /\ Get(clouds).land_probability_temperature # None
    /\ \E c \in Cells(platform_data) :
        /\ RLe(<<0, 1>>, Get(Get(clouds).over_land_probability_variance)[c])
        /\ RLt(<<0, 1>>, Get(Get(clouds).over_land_probability)[c])
    /\ \E c \in Cells(platform_data) :
        RLt(Get(Get(clouds).over_land_probability_variance)[c], <<0, 1>>)

\* C10 as stated: the HOT brightness, the SWIR1 brightness and the
\* water temperature probabilities all lie within [0, 1].
C10_AllWithinUnit ==
    (phase = "clouds" /\ Get(clouds).status = "full") =>
        /\ Get(clouds).land_probability_brightness # None
            => WithinUnit(Get(Get(clouds).land_probability_brightness))
        /\ WithinUnit(Get(Get(clouds).over_water_probability_brightness))
        /\ Get(clouds).over_water_probability_temperature # None
            => WithinUnit(Get(Get(clouds).over_water_probability_temperature))

\* C10: the HOT brightness and the SWIR1 brightness probabilities lie
\* within [0, 1]; the water temperature probability is >= 0, with no upper
\* bound.
C10_BrightnessWithinUnit ==
    (phase = "clouds" /\ Get(clouds).status = "full") =>
        /\ Get(clouds).land_probability_brightness # None
            => WithinUnit(Get(Get(clouds).land_probability_brightness))
        /\ WithinUnit(Get(Get(clouds).over_water_probability_brightness))
        /\ Get(clouds).over_water_probability_temperature # None
            => \A c \in Cells(platform_data) :
                RLe(<<0, 1>>, Get(Get(clouds).over_water_probability_temperature)[c])

\* a scene past the guard with all three probabilities computed, a pixel
\* whose SWIR1 / 1100 exceeds 1 and a pixel colder than the clear water
C10_Witness ==
    /\ phase = "clouds"
    /\ Get(clouds).status = "full"
    /\ Get(clouds).land_probability_brightness # None
    /\ Get(clouds).over_water_probability_temperature # None
    /\ \E c \in Cells(platform_data) : platform_data.band_data[c].SWIR1 > 1100
    /\ \E c \in Cells(platform_data) :
        RLt(<<0, 1>>, Get(Get(clouds).over_water_probability_temperature)[c])

----------------------------------------------------------------------------
(* SpecAux: FMask._extract_aux_data, run after run on one FMask object *)

\* _extract_aux_data runs at most MaxRuns times on one object
MaxRuns == 4

\* extract_aux_data: the extracted data (tagged with its source), or None.
\* available: whether the dataset creator of that source yields a dataset
extract_aux_data(aux_path, aux_type, available) ==
    IF aux_type = "MAPZEN"
    THEN IF available THEN Some([source |-> aux_type]) ELSE None
    ELSE IF aux_path # None
         THEN IF available THEN Some([source |-> aux_type]) ELSE None
         ELSE None

\* one logged call of extract_aux_data
AuxCall(aux_path, aux_type, available) ==
    [aux_type |-> aux_type, aux_path |-> aux_path,
     returned |-> extract_aux_data(aux_path, aux_type, available)]

PathChoices == {None, Some("local")}

InitAux ==
    /\ phase = "aux"
    /\ fmask \in [use_mapzen : BOOLEAN, dem_path : PathChoices,
                  gswo_path : PathChoices, dem_data : {None}, gswo_data : {None}]
    /\ auxLog = <<>>
    /\ runs = 0
    /\ erodeIdle
    /\ runIdle
    /\ cloudIdle
    /\ matchIdle
    /\ repeatIdle
    /\ callIdle

\* FMask._extract_aux_data; mapzen_ok, dem_ok, gswo_ok: whether Mapzen, the
\* local DEM file and the local GSWO file yield a dataset during this run
ExtractAuxData ==
    /\ phase = "aux"
    /\ runs < MaxRuns
    /\ \E mapzen_ok \in BOOLEAN, dem_ok \in BOOLEAN, gswo_ok \in BOOLEAN :
        LET initial_dem_type == IF fmask.use_mapzen THEN "MAPZEN" ELSE "DEM"
            first == AuxCall(fmask.dem_path, initial_dem_type,
                             IF fmask.use_mapzen THEN mapzen_ok ELSE dem_ok)
            retry == /\ first.returned = None
                     /\ initial_dem_type = "MAPZEN"
                     /\ fmask.dem_data # None
            second == AuxCall(fmask.dem_path, "DEM", dem_ok)
            dem_data == IF retry THEN second.returned ELSE first.returned
            gswo == AuxCall(fmask.gswo_path, "GSWO", gswo_ok)
        IN  /\ fmask' = [fmask EXCEPT
                            !.dem_data = dem_data,
                            !.gswo_data = IF fmask.gswo_path # None
                                          THEN gswo.returned ELSE @]
            /\ auxLog' = <<first>> \o (IF retry THEN <<second>> ELSE <<>>)
                            \o (IF fmask.gswo_path # None THEN <<gswo>> ELSE <<>>)
    /\ runs' = runs + 1
    /\ UNCHANGED <<phase, erodeVars, runVars, cloudVars, matchVars,
                   repeatVars, callVars>>

NextAux == ExtractAuxData

SpecAux == InitAux /\ [][NextAux]_vars

\* the calls of the last _extract_aux_data that asked for the local DEM
LocalDemCalls == {i \in 1 .. Len(auxLog) : auxLog[i].aux_type = "DEM"}

\* C6: when the Mapzen DEM request returned none and dem_path is configured,
\* _extract_aux_data retried exactly once, with AuxTypes.DEM on dem_path
C6_RetryOnce ==
    (/\ phase = "aux"
     /\ auxLog # <<>>
     /\ auxLog[1].aux_type = "MAPZEN"
     /\ auxLog[1].returned = None
     /\ fmask.dem_path # None)
    => /\ Cardinality(LocalDemCalls) = 1
       /\ auxLog[2].aux_type = "DEM"
       /\ auxLog[2].aux_path = fmask.dem_path

----------------------------------------------------------------------------
(* SpecCompose: the tail of FMask.run: dilation of the snow, shadow and    *)
(* cloud layers, then _compute_final_results                               *)

\* dilated_snow_px, dilated_shadow_px, dilated_cloud_px range over 0..MaxDilate
MaxDilate == 1

\* dilation by a square of side 2 * amount + 3
dilate_array_wider(array, amount) ==
    binary_dilation(array, square(2 * amount + 3))

\* raster_utilities.morphology.dilate_array
dilate_array(array, amount) == binary_dilation(array, square(2 * amount + 1))

\* np.where(condition, value, array) with a scalar value
np_where(condition, value, array) ==
    [p \in Pix |-> IF p \in condition THEN value ELSE array[p]]

\* np.zeros(shape)
zeros == [p \in Pix |-> 0]

\* no-data value of the result raster
nodata_value == 255

\* _compute_final_results with the no-data layer painted first
compute_final_results_nodata_first(lay, cfg) ==
    Let(np_where(lay.nodata_mask, nodata_value, zeros), LAMBDA f0 :
    Let(np_where(lay.water, cfg.water_value, f0), LAMBDA f1 :
    Let(np_where(lay.snow, cfg.snow_value, f1), LAMBDA f2 :
    Let(np_where(lay.cloud_shadow, cfg.cloud_shadow_value, f2), LAMBDA f3 :
        np_where(lay.cloud, cfg.cloud_value, f3)))))

\* _compute_final_results with cloud painted before cloud shadow
compute_final_results_cloud_first(lay, cfg) ==
    Let(np_where(lay.water, cfg.water_value, zeros), LAMBDA f1 :
    Let(np_where(lay.snow, cfg.snow_value, f1), LAMBDA f2 :
    Let(np_where(lay.cloud, cfg.cloud_value, f2), LAMBDA f3 :
    Let(np_where(lay.cloud_shadow, cfg.cloud_shadow_value, f3), LAMBDA f4 :
        np_where(lay.nodata_mask, nodata_value, f4)))))

\* FMask._compute_final_results: water, snow, cloud shadow, cloud, no data
compute_final_results(lay, cfg) ==
    Let(np_where(lay.water, cfg.water_value, zeros), LAMBDA f1 :
    Let(np_where(lay.snow, cfg.snow_value, f1), LAMBDA f2 :
    Let(np_where(lay.cloud_shadow, cfg.cloud_shadow_value, f2), LAMBDA f3 :
    Let(np_where(lay.cloud, cfg.cloud_value, f3), LAMBDA f4 :
        np_where(lay.nodata_mask, nodata_value, f4)))))

\* layers handed over by the detectors: empty, the centre pixel, the first
\* row, or everything but the first pixel
LayerChoices ==
    {{}, {<<1, 1>>}, {p \in Pix : p[1] = 0}, Pix \ {<<0, 0>>}}

\* the default class values and a custom assignment
ValueChoices ==
    {[water_value |-> 1, snow_value |-> 3, cloud_shadow_value |-> 2,
      cloud_value |-> 4],
     [water_value |-> 10, snow_value |-> 30, cloud_shadow_value |-> 20,
      cloud_value |-> 40]}

SettingChoices ==
    {[dilated_snow_px |-> a, dilated_shadow_px |-> b, dilated_cloud_px |-> c,
      water_value |-> v.water_value, snow_value |-> v.snow_value,
      cloud_shadow_value |-> v.cloud_shadow_value,
      cloud_value |-> v.cloud_value] :
        a \in 0 .. MaxDilate, b \in 0 .. MaxDilate, c \in 0 .. MaxDilate,
        v \in ValueChoices}

InitCompose ==
    /\ phase = "dilate"
    /\ settings \in SettingChoices
    /\ layers \in [nodata_mask : LayerChoices, water : LayerChoices,
                   snow : LayerChoices, cloud_shadow : LayerChoices,
                   cloud : LayerChoices]
    /\ results = None
    /\ erodeIdle
    /\ auxIdle
    /\ cloudIdle
    /\ matchIdle
    /\ repeatIdle
    /\ callIdle

\* FMask.run, lines 373-378: dilate snow, shadows and clouds
DilateLayers ==
    /\ phase = "dilate"
    /\ layers' = [layers EXCEPT
            !.snow = IF settings.dilated_snow_px > 0
                     THEN dilate_array(@, settings.dilated_snow_px) ELSE @,
            !.cloud_shadow = IF settings.dilated_shadow_px > 0
                     THEN dilate_array(@, settings.dilated_shadow_px) ELSE @,
            !.cloud = IF settings.dilated_cloud_px > 0
                     THEN dilate_array(@, settings.dilated_cloud_px) ELSE @]
    /\ phase' = "compose"
    /\ UNCHANGED <<settings, results, erodeVars, auxVars, cloudVars, matchVars,
                   repeatVars, callVars>>

\* FMask._compute_final_results
ComputeFinalResults ==
    /\ phase = "compose"
    /\ results' = Some(compute_final_results(layers, settings))
    /\ phase' = "done"
    /\ UNCHANGED <<settings, layers, erodeVars, auxVars, cloudVars, matchVars,
                   repeatVars, callVars>>

NextCompose == DilateLayers \/ ComputeFinalResults

SpecCompose == InitCompose /\ [][NextCompose]_vars

\* C1: after composition every no-data pixel of the result is 255
C1_NodataIs255 ==
    results # None =>
        \A p \in layers.nodata_mask : Get(results)[p] = nodata_value

\* a composed scene has a no-data pixel that water and cloud also cover
C1_Witness ==
    /\ results # None
    /\ \E p \in layers.nodata_mask :
        p \in layers.water /\ p \in layers.cloud /\ Get(results)[p] = 255

\* the class layers in painting order, with their class values
PaintOrder ==
    <<<<layers.water, settings.water_value>>,
      <<layers.snow, settings.snow_value>>,
      <<layers.cloud_shadow, settings.cloud_shadow_value>>,
      <<layers.cloud, settings.cloud_value>>>>

\* the value of the last layer of the painting order that covers p, else 0
LastPainted(p) ==
    LET covering == {i \in 1 .. 4 : p \in PaintOrder[i][1]}
    IN  IF covering = {} THEN 0
        ELSE PaintOrder[CHOOSE i \in covering : \A j \in covering : j <= i][2]

\* C2: every pixel outside the no-data mask carries the class value of the
\* last layer covering it in the order water, snow, cloud shadow, cloud, and
\* 0 when no layer covers it
C2_LastLayerWins ==
    results # None =>
        \A p \in Pix \ layers.nodata_mask : Get(results)[p] = LastPainted(p)

\* a composed scene has a valid pixel under shadow and cloud showing cloud,
\* one under water and shadow only showing shadow, and one left at 0
C2_Witness ==
    /\ results # None
    /\ \E p \in Pix \ layers.nodata_mask :
        /\ p \in layers.cloud_shadow /\ p \in layers.cloud
        /\ Get(results)[p] = settings.cloud_value
    /\ \E p \in Pix \ layers.nodata_mask :
        /\ p \in layers.water /\ p \in layers.cloud_shadow
        /\ p \notin layers.cloud
        /\ Get(results)[p] = settings.cloud_shadow_value
    /\ \E p \in Pix \ (layers.nodata_mask \cup layers.water \cup layers.snow
                        \cup layers.cloud_shadow \cup layers.cloud) :
        Get(results)[p] = 0


----------------------------------------------------------------------------
(* detectors/cloud_shadow/match_cloud_shadows.py, on the grid.  The cloud  *)
(* height range is the same for every cloud (no BT band), so the two end   *)
(* displacements shadow(H1_px, ...) and shadow(H2_px, ...) are arguments.  *)

cloud_pixels_limit == 40000

\* the skip test with its first comparison turned around
skip_matching_flipped(sum_clear_pixels, cloud_potential, nodata_mask) ==
    \/ sum_clear_pixels >= cloud_pixels_limit
    \/ /\ Pix \ nodata_mask # {}
       /\ 10 * Cardinality(cloud_potential) >= 9 * Cardinality(Pix \ nodata_mask)

\* (sum_clear_pixels <= cloud_pixels_limit) | (revised_cloud_percent >= 0.90);
\* the percentage is 0 / 0 = nan on a scene without a valid pixel
skip_matching(sum_clear_pixels, cloud_potential, nodata_mask) ==
    \/ sum_clear_pixels <= cloud_pixels_limit
    \/ /\ Pix \ nodata_mask # {}
       /\ 10 * Cardinality(cloud_potential) >= 9 * Cardinality(Pix \ nodata_mask)

\* regionprops bbox of a component, as the set of its positions
bbox(c) ==
    {p \in Pix : /\ \E q \in c : q[1] <= p[1]
                 /\ \E q \in c : q[1] >= p[1]
                 /\ \E q \in c : q[2] <= p[2]
                 /\ \E q \in c : q[2] >= p[2]}

\* shape of the bbox: rows, columns
bbox_shape(c) ==
    <<Cardinality({p[1] : p \in bbox(c)}), Cardinality({p[2] : p \in bbox(c)})>>

\* number of positions tried between the two end displacements
num_steps_of(shift) ==
    LET longest == IF Abs(shift.dx2 - shift.dx1) >= Abs(shift.dy2 - shift.dy1)
                   THEN Abs(shift.dx2 - shift.dx1) ELSE Abs(shift.dy2 - shift.dy1)
    IN  IF longest >= 1 THEN longest ELSE 1

\* <<dy, dx>> at step i: int(d1 + i * step)
displacement(shift, i) ==
    <<Trunc(RAdd(RInt(shift.dy1), R(i * (shift.dy2 - shift.dy1), num_steps_of(shift)))),
      Trunc(RAdd(RInt(shift.dx1), R(i * (shift.dx2 - shift.dx1), num_steps_of(shift))))>>

\* shadow_template_tmp: the cloud without the part its shifted copy covers
trimmed_template(c, d) ==
    IF Abs(d[1]) < bbox_shape(c)[1] /\ Abs(d[2]) < bbox_shape(c)[2]
    THEN IF d[1] # 0 /\ d[2] # 0
         THEN {p \in c : Shift(p, d) \notin c}
         ELSE c
    ELSE c

\* one entry of similarity_max_list and index_candidate_list for step i, or
\* None where the step is skipped
similarity_at(c, shadow_potential, all_water, shift, i) ==
    Let(displacement(shift, i), LAMBDA d :
    Let({q \in bbox(c) : Shift(q, d) \in shadow_potential}, LAMBDA shadow_candidate :
    Let({q \in bbox(c) : Shift(q, d) \in all_water}, LAMBDA water_mask :
        IF shadow_candidate \subseteq water_mask THEN None
        ELSE Let(R(Cardinality(trimmed_template(c, d) \cap shadow_candidate),
                   Cardinality(trimmed_template(c, d))), LAMBDA similarity_local_max :
                 IF similarity_local_max = <<0, 1>> THEN None
                 ELSE Some([similarity |-> similarity_local_max, index |-> i])))))

RECURSIVE similarity_list(_, _, _, _, _)
\* the two lists after steps 0 .. i - 1
similarity_list(c, shadow_potential, all_water, shift, i) ==
    IF i = 0 THEN <<>>
    ELSE similarity_list(c, shadow_potential, all_water, shift, i - 1)
         \o similarity_at(c, shadow_potential, all_water, shift, i - 1)

RECURSIVE first_maximum(_, _, _, _, _)
\* the scan for the first local maximum from position ind: where it stops
\* (ind) and the maximum found
first_maximum(list, shift, ind, similarity_max, ind_max) ==
    LET here == list[ind].similarity
        rise == RLe(similarity_max, here)
        stop == /\ ~rise
                /\ ~RLt(RMul(<<19, 20>>, similarity_max), here)
                /\ ~RLt(similarity_max, <<3, 10>>)
                /\ LET d == displacement(shift, list[ind_max].index)
                   IN  16 * (d[1] * d[1] + d[2] * d[2]) > 289
    IN  IF stop \/ ind = Len(list)
        THEN [ind |-> ind,
              similarity_max |-> IF rise THEN here ELSE similarity_max,
              ind_max |-> IF rise THEN ind ELSE ind_max]
        ELSE first_maximum(list, shift, ind + 1,
                           IF rise THEN here ELSE similarity_max,
                           IF rise THEN ind ELSE ind_max)

\* the displacements painted without the test similarity_max > 0.3
matched_displacements_any_maximum(c, shadow_potential, all_water, shift) ==
    Let(similarity_list(c, shadow_potential, all_water, shift, num_steps_of(shift)),
        LAMBDA list :
        IF list = <<>> THEN {}
        ELSE Let(first_maximum(list, shift, 1, <<0, 1>>, 1), LAMBDA found :
             {displacement(shift, list[k].index) :
                 k \in {j \in 1 .. found.ind :
                           RLe(RMul(<<19, 20>>, found.similarity_max),
                               list[j].similarity)}}))

\* the displacements <<dy_matched, dx_matched>> painted for one labelled
\* cloud
matched_displacements(c, shadow_potential, all_water, shift) ==
    Let(similarity_list(c, shadow_potential, all_water, shift, num_steps_of(shift)),
        LAMBDA list :
        IF list = <<>> THEN {}
        ELSE Let(first_maximum(list, shift, 1, <<0, 1>>, 1), LAMBDA found :
             IF ~RLt(<<3, 10>>, found.similarity_max) THEN {}
             ELSE {displacement(shift, list[k].index) :
                     k \in {j \in 1 .. found.ind :
                               RLe(RMul(<<19, 20>>, found.similarity_max),
                                   list[j].similarity)}}))

\* the shadow of one labelled cloud
matched_shadow(c, shadow_potential, all_water, shift) ==
    {p \in Pix :
        \E d \in matched_displacements(c, shadow_potential, all_water, shift) :
            \E q \in c : p = Shift(q, d)}

match_cloud_shadows(cloud, sum_clear_pixels, all_water, potential_cloud_shadow_pixels, nodata_mask, shift) ==
    Let(cloud \ nodata_mask, LAMBDA cloud_potential :
        IF skip_matching(sum_clear_pixels, cloud_potential, nodata_mask)
        THEN Pix \ potential_cloud_shadow_pixels
        ELSE Let(Components(cloud_potential), LAMBDA cloud_labels_props :
             IF cloud_labels_props = {} THEN {}
             ELSE {p \in Pix : \E c \in cloud_labels_props :
                     p \in matched_shadow(c, potential_cloud_shadow_pixels,
                                          all_water, shift)}))


----------------------------------------------------------------------------
(* SpecMatch: one call of match_cloud_shadows *)

\* most potential shadow pixels in an input that is not the whole grid
MaxShadow == 2

MatchCloudChoices ==
    SubsetsUpTo(Pix, 1)
        \cup {{<<0, 0>>, <<0, 1>>}, {<<0, 0>>, <<1, 0>>}, {<<0, 0>>, <<1, 1>>},
              {<<0, 0>>, <<0, 2>>}, {<<0, 0>>, <<0, 1>>, <<0, 2>>, <<1, 0>>}, Pix}

ShadowChoices == SubsetsUpTo(Pix, MaxShadow) \cup {Pix}

\* sum_clear_pixels on either side of cloud_pixels_limit
SumClearChoices == {0, 40000, 40001}

\* shadow(H1_px, ...) and shadow(H2_px, ...) of a few sun positions
ShiftChoices ==
    {[dx1 |-> 0, dy1 |-> 0, dx2 |-> 0, dy2 |-> 0],
     [dx1 |-> 0, dy1 |-> 1, dx2 |-> 0, dy2 |-> 2],
     [dx1 |-> 0, dy1 |-> 1, dx2 |-> 0, dy2 |-> 3],
     [dx1 |-> 1, dy1 |-> 1, dx2 |-> 2, dy2 |-> 2]}

InitMatch ==
    /\ phase = "call"
    /\ matchArgs \in
        [cloud : MatchCloudChoices,
         sum_clear_pixels : SumClearChoices,
         all_water : {{}, {p \in Pix : p[2] = 0}},
         potential_cloud_shadow_pixels : ShadowChoices,
         nodata_mask : {{}, {<<0, 0>>}},
         shift : ShiftChoices]
    /\ matchOut = None
    /\ erodeIdle
    /\ auxIdle
    /\ runIdle
    /\ cloudIdle
    /\ repeatIdle
    /\ callIdle

MatchCloudShadows ==
    /\ phase = "call"
    /\ phase' = "returned"
    /\ matchOut' = Some(match_cloud_shadows(matchArgs.cloud,
                        matchArgs.sum_clear_pixels, matchArgs.all_water,
                        matchArgs.potential_cloud_shadow_pixels,
                        matchArgs.nodata_mask, matchArgs.shift))
    /\ UNCHANGED <<matchArgs, erodeVars, auxVars, runVars, cloudVars,
                   repeatVars, callVars>>

NextMatch == MatchCloudShadows

SpecMatch == InitMatch /\ [][NextMatch]_vars

----------------------------------------------------------------------------
(* raster_utilities/morphology.py: enhance_line;                           *)
(* detectors/cloud/false_positive_cloud_pixels.py                          *)

RECURSIVE RSum(_, _)
\* sum of raster over the pixels of mask
RSum(raster, mask) ==
    IF mask = {} THEN <<0, 1>>
    ELSE LET p == CHOOSE p \in mask : TRUE
         IN  RAdd(raster[p], RSum(raster, mask \ {p}))

\* the templates with the main diagonal in the place of the anti-diagonal
line_templates_three ==
    <<[o \in square(3) |-> IF o[1] = 0 THEN 2 ELSE -1],
      [o \in square(3) |-> IF o[2] = 0 THEN 2 ELSE -1],
      [o \in square(3) |-> IF o[1] = o[2] THEN 2 ELSE -1],
      [o \in square(3) |-> IF o[1] = o[2] THEN 2 ELSE -1]>>

\* the four 3 x 3 line templates, times 6
line_templates ==
    <<[o \in square(3) |-> IF o[1] = 0 THEN 2 ELSE -1],
      [o \in square(3) |-> IF o[2] = 0 THEN 2 ELSE -1],
      [o \in square(3) |-> IF o[1] = o[2] THEN 2 ELSE -1],
      [o \in square(3) |-> IF o[1] = -o[2] THEN 2 ELSE -1]>>

\* signal.convolve2d(array, k, mode="same", boundary="fill", fillvalue=0)
convolve2d(array, k) ==
    [p \in Pix |->
        RMul(<<1, 6>>,
             RSum([o \in square(3) |->
                      IF Shift(p, <<-o[1], -o[2]>>) \in Pix
                      THEN RMul(RInt(k[o]), array[Shift(p, <<-o[1], -o[2]>>)])
                      ELSE <<0, 1>>],
                  square(3)))]

enhance_line(array) ==
    Let(convolve2d(array, line_templates[1]), LAMBDA t1 :
    Let(convolve2d(array, line_templates[2]), LAMBDA t2 :
    Let(convolve2d(array, line_templates[3]), LAMBDA t3 :
    Let(convolve2d(array, line_templates[4]), LAMBDA t4 :
        [p \in Pix |->
            RMax(RMax(RMax(RMax(RInt(-9999999), t1[p]), t2[p]), t3[p]), t4[p])]))))

\* between-class variance weight1 * weight2 * (mean1 - mean2)^2 of the
\* split of raster over mask at level v
class_variance(raster, mask, v) ==
    LET low == {p \in mask : RLe(raster[p], v)}
        high == mask \ low
        d == RSub(RDiv(RSum(raster, low), RInt(Cardinality(low))),
                  RDiv(RSum(raster, high), RInt(Cardinality(high))))
    IN  RMul(RMul(RInt(Cardinality(low) * Cardinality(high)), d), d)

\* np.min(values[values > threshold_otsu(values)]) for the values of raster
\* over mask, None where no value lies above the threshold.  Otsu's
\* threshold separates the values at the first split of largest
\* between-class variance; on a single value it is that value.
minimum_above_otsu(raster, mask) ==
    Let({raster[p] : p \in mask}, LAMBDA levels :
        IF Cardinality(levels) <= 1 THEN None
        ELSE
        Let({v \in levels : \E w \in levels : RLt(v, w)}, LAMBDA splits :
        Let(CHOOSE v \in splits :
                \A w \in splits :
                    \/ RLt(class_variance(raster, mask, w),
                           class_variance(raster, mask, v))
                    \/ /\ class_variance(raster, mask, w)
                            = class_variance(raster, mask, v)
                       /\ RLe(v, w), LAMBDA t :
            Some(CHOOSE m \in levels :
                    /\ RLt(t, m)
                    /\ \A w \in levels : RLt(t, w) => RLe(m, w)))))

detect_false_positive_cloud_pixels(scene, ndbi, ndvi, snow, water, cloud, cdi, slope, out_resolution) ==
    Let({p \in Pix : /\ RLt(<<0, 1>>, ndbi[p])
                     /\ RLt(ndvi[p], ndbi[p])
                     /\ p \notin scene.nodata_mask
                     /\ p \notin water}, LAMBDA urban :
    Let(IF urban # {} /\ scene.bt # None
        THEN Let(minimum_above_otsu(Get(scene.bt), urban \cup cloud),
                 LAMBDA minimum_bt_temp :
                 IF minimum_bt_temp = None THEN urban
                 ELSE {p \in urban :
                         ~RLt(Get(scene.bt)[p], Get(minimum_bt_temp))})
        ELSE urban, LAMBDA warm :
    Let(IF urban # {} /\ cdi # None
        THEN {p \in warm : ~RLt(Get(cdi)[p], <<-4, 5>>)}
        ELSE warm, LAMBDA bright :
    Let(IF slope # None
        THEN bright \cup {p \in snow : Get(slope)[p] > 20}
        ELSE bright, LAMBDA with_mountain_snow :
        (binary_dilation(with_mountain_snow,
                         square(2 * (250 \div out_resolution) + 1))
            \cup snow) \ scene.nodata_mask))))


----------------------------------------------------------------------------
(* SpecRun: FMask.run on a GridSide x GridSide Landsat 8 scene without DEM *)
(* and GSWO data, from the spectral composites to the final results.       *)

\* Landsat8.OUT_RESOLUTION
out_resolution == 30

\* PlatformBase.calculate_erosion_pixels: round(90.0 / out_resolution),
\* halves rounded to the even neighbour
calculate_erosion_pixels(resolution) ==
    LET whole == 90 \div resolution
        rest == 90 % resolution
    IN  IF 2 * rest > resolution \/ (2 * rest = resolution /\ whole % 2 = 1)
        THEN whole + 1 ELSE whole

\* pixel_limit of _run_cloud_shadow_detection
pixel_limit == 40000

\* the kinds of surface of the grid scenes
GridKinds == {"veg", "cloud", "water", "urban", "ice", "nodata"}

\* the pixels of a scene that differ from its background
BlobChoices == {{}, {<<0, 0>>}, {<<1, 1>>}, {<<0, 0>>, <<0, 1>>}}

\* the platform data of a Landsat 8 grid scene: kind_of gives each pixel
\* its kind of surface
MakeGridScene(kind_of, with_cirrus) ==
    [sensor |-> "L08_OLI",
     band_data |-> [p \in Pix |->
        [BLUE |-> Palette[kind_of[p]].BLUE, GREEN |-> Palette[kind_of[p]].GREEN,
         RED |-> Palette[kind_of[p]].RED, NIR |-> Palette[kind_of[p]].NIR,
         SWIR1 |-> Palette[kind_of[p]].SWIR1, SWIR2 |-> Palette[kind_of[p]].SWIR2]],
     bt |-> Some([p \in Pix |-> RInt(Palette[kind_of[p]].BT)]),
     cirrus |-> IF with_cirrus
                THEN Some([p \in Pix |-> RInt(Palette[kind_of[p]].CIRRUS)])
                ELSE None,
     vis_saturation |-> {},
     nodata_mask |-> {p \in Pix : kind_of[p] = "nodata"},
     weight |-> [p \in Pix |-> 1],
     dem |-> None]

GridSceneChoices ==
    {MakeGridScene([p \in Pix |-> IF p \in blob THEN kind ELSE background],
                   with_cirrus) :
        background \in GridKinds, kind \in GridKinds, blob \in BlobChoices,
        with_cirrus \in BOOLEAN}

InitRun ==
    /\ phase = "start"
    /\ platform_data \in GridSceneChoices
    /\ settings \in SettingChoices
    /\ composites = None
    /\ cloud_pixels = None
    /\ clouds = None
    /\ layers = None
    /\ results = None
    /\ erodeIdle
    /\ auxIdle
    /\ matchIdle
    /\ repeatIdle
    /\ callIdle

\* _run_cloud_detection from enhance_line on: the false positives and the
\* removal of commission errors give self.cloud
RemoveCommissions ==
    /\ phase = "clouds"
    /\ settings # None
    /\ phase' = "cloud"
    /\ \E ndbi \in {enhance_line(Get(composites).ndbi)} :
        /\ composites' = Some([Get(composites) EXCEPT !.ndbi = ndbi])
        /\ layers' =
            [nodata_mask |-> platform_data.nodata_mask,
             water |-> Get(composites).water,
             snow |-> Get(composites).snow,
             cloud_shadow |-> {},
             cloud |-> erode_commissons(None, Get(clouds).cloud,
                detect_false_positive_cloud_pixels(platform_data, ndbi,
                    Get(composites).ndvi, Get(composites).snow,
                    Get(composites).water, Get(clouds).cloud, None, None,
                    out_resolution),
                Get(composites).water,
                calculate_erosion_pixels(out_resolution))]
    /\ UNCHANGED <<platform_data, cloud_pixels, clouds, settings, results,
                   erodeVars, auxVars, matchVars,
                   repeatVars, callVars>>

\* _run_cloud_shadow_detection; the potential shadow pixels and the sun
\* displacements of the matching branch are inputs
RunCloudShadowDetection ==
    /\ phase = "cloud"
    /\ phase' = "dilate"
    /\ IF Get(clouds).sum_clear_pixels < pixel_limit
       THEN layers' = [layers EXCEPT !.cloud_shadow = Pix \ layers.cloud]
       ELSE \E potential_cloud_shadow_pixels \in ShadowChoices,
               shift \in ShiftChoices :
            layers' = [layers EXCEPT !.cloud_shadow =
                match_cloud_shadows(layers.cloud, Get(clouds).sum_clear_pixels,
                    Get(composites).water, potential_cloud_shadow_pixels,
                    platform_data.nodata_mask, shift)]
    /\ UNCHANGED <<settings, results, erodeVars, auxVars, cloudVars, matchVars,
                   repeatVars, callVars>>

NextRun ==
    \/ CreateSpectralComposites
    \/ DetectPotentialCloudPixels
    \/ DetectPotentialClouds
    \/ RemoveCommissions
    \/ RunCloudShadowDetection
    \/ DilateLayers
    \/ ComputeFinalResults

SpecRun == InitRun /\ [][NextRun]_vars

\* the scene has no nodata, no potential cloud pixel, no water, no snow, no
\* CIRRUS band and no DEM
ClearLandOnly ==
    /\ platform_data.nodata_mask = {}
    /\ Get(cloud_pixels).potential_pixels = {}
    /\ Get(composites).water = {}
    /\ Get(composites).snow = {}
    /\ platform_data.cirrus = None
    /\ platform_data.dem = None

\* C7: on a scene without nodata, potential cloud pixels, water and snow
\* (no CIRRUS, no DEM, no GSWO) run() ends with cloud and cloud_shadow
\* false at every pixel and results 0 everywhere.
C7_ClearLandStaysClear ==
    (phase = "done" /\ ClearLandOnly) =>
        /\ layers.cloud = {}
        /\ layers.cloud_shadow = {}
        /\ \A p \in Pix : Get(results)[p] = 0

----------------------------------------------------------------------------
(* percentiles over empty selections *)

----------------------------------------------------------------------------
(* detectors/cloud/potential_clouds.py: the stratified random sample of    *)
(* normalize_bt and the regression on it.  SpecRepeat runs the cloud       *)
(* detection twice on the same input file within one process.              *)

\* an order of the kinds of surface: the pixels of a selection are laid
\* out kind after kind
KindOrder ==
    <<"grass", "veg", "red", "bare", "soil", "urban", "cloud", "water",
      "cloudwater", "ice", "haze", "nodata">>

Pos(c) == CHOOSE i \in 1 .. Len(KindOrder) : KindOrder[i] = c

Min(a, b) == IF a < b THEN a ELSE b
Max(a, b) == IF a < b THEN b ELSE a

\* the selections (data_dem_clear >= k) & (data_dem_clear < k + step) of
\* normalize_bt that hold a pixel, for k = dem_b, dem_b + 300, ...
strata_of(scene, dem, mm, dem_b, dem_t) ==
    LET stratum(j) ==
            LET k == RAdd(dem_b, RInt(300 * j))
            IN  IF RLt(k, RAdd(dem_t, RInt(300)))
                THEN {c \in mm : RLe(k, dem[c]) /\ RLt(dem[c], RAdd(k, RInt(300)))}
                ELSE {}
        last == Trunc(RDiv(RSub(dem_t, dem_b), RInt(300))) + 1
    IN  SelectSeq([j \in 1 .. last + 1 |-> stratum(j - 1)], LAMBDA s : s # {})

\* np.random.choice(np.arange(n), size, replace=False) on the pixels of
\* one stratum: the pixels per cell that are drawn.  The generator state
\* decides which n - size pixels are left out: here a run of pixels that
\* starts at the cell the state points to.
random_choice(scene, stratum, size, state) ==
    LET m == Cardinality(stratum)
        rk(c) == Cardinality({d \in stratum : Pos(d) < Pos(c)})
        at(c) == (rk(c) + m - (state % m)) % m
        excess == Count(scene, stratum) - size
        before(c) == Count(scene, {d \in stratum : at(d) < at(c)})
    IN  [c \in stratum |->
            scene.weight[c] - Min(scene.weight[c], Max(0, excess - before(c)))]

\* int(round(total_sample / num_strata_avail, 0)): round half to even
num_per_strata_of(num_strata_avail) ==
    LET whole == total_sample \div num_strata_avail
        rest == total_sample % num_strata_avail
    IN  IF 2 * rest > num_strata_avail
           \/ (2 * rest = num_strata_avail /\ whole % 2 = 1)
        THEN whole + 1 ELSE whole

\* dem_sampled / bt_sampled of normalize_bt as pixels drawn per cell, with
\* the number of np.random.choice calls made; None where normalize_bt
\* returns or raises before it draws
draw_sample(scene, bt, idused, state) ==
    Let([c \in Cells(scene) |-> RInt(Get(scene.dem)[c])], LAMBDA dem :
    Let({c \in Cells(scene) : dem[c] # RInt(dem_nodata) /\ bt[c] # RInt(-9999)},
        LAMBDA dem_mask :
        IF Count(scene, dem_mask) < 100 THEN None
        ELSE
        Let(percentile(scene, dem, dem_mask, 1, 1000000), LAMBDA dem_b :
        Let(percentile(scene, dem, dem_mask, 99999, 100000), LAMBDA dem_t :
        Let(percentile(scene, bt, idused, 7, 40), LAMBDA temp_min :
        Let(percentile(scene, bt, idused, 33, 40), LAMBDA temp_max :
        Let({c \in idused \cap dem_mask :
                RLt(temp_min, bt[c]) /\ RLt(bt[c], temp_max)}, LAMBDA mm :
        Let(strata_of(scene, dem, mm, dem_b, dem_t), LAMBDA strata :
            IF Len(strata) = 0 \/ num_per_strata_of(Len(strata)) < 1 THEN None
            ELSE Some(
                [calls |-> Len(strata),
                 drawn |-> [c \in mm |->
                    LET j == CHOOSE j \in 1 .. Len(strata) : c \in strata[j]
                    IN  random_choice(scene, strata[j],
                            Min(Count(scene, strata[j]),
                                num_per_strata_of(Len(strata))),
                            state + j - 1)[c]]])))))))))

RECURSIVE CountsGCD(_, _)
\* the greatest common divisor of the counts of the cells of S
CountsGCD(drawn, S) ==
    IF S = {} THEN 0
    ELSE LET c == CHOOSE c \in S : TRUE
         IN  GCD(drawn[c], CountsGCD(drawn, S \ {c}))

\* sm.OLS(bt_sampled, sm.add_constant(dem_sampled)).fit(): the slope of the
\* least squares line and whether its two-sided p-value is below 0.05 (t
\* statistic beyond 1.96, the 5 % point of Student's t for the sample sizes
\* at hand).  The sums run over the pairs of sampled cells, with the pixel
\* counts divided by their common divisor.
OLS(scene, bt, drawn) ==
    LET S == {c \in DOMAIN drawn : drawn[c] > 0}
        n == Count([weight |-> drawn], S)
        unit == CountsGCD(drawn, S)
        x(c) == Get(scene.dem)[c]
        y(c) == bt[c][1]
        Pairs == {pr \in S \X S : pr[1] # pr[2]}
        w(pr) == (drawn[pr[1]] \div unit) * (drawn[pr[2]] \div unit)
        Sxy == RSum([pr \in Pairs |->
                    RInt(w(pr) * (x(pr[1]) - x(pr[2])) * (y(pr[1]) - y(pr[2])))],
                    Pairs)
        Sxx == RSum([pr \in Pairs |->
                    RInt(w(pr) * (x(pr[1]) - x(pr[2])) * (x(pr[1]) - x(pr[2])))],
                    Pairs)
        Syy == RSum([pr \in Pairs |->
                    RInt(w(pr) * (y(pr[1]) - y(pr[2])) * (y(pr[1]) - y(pr[2])))],
                    Pairs)
        r2 == RMul(RDiv(Sxy, Sxx), RDiv(Sxy, Syy))
    IN  IF Sxx = <<0, 1>>
        THEN [constant_only |-> \A c \in S : x(c) # 0,
              rate_lapse |-> <<0, 1>>, significant |-> FALSE]
        ELSE [constant_only |-> FALSE,
              rate_lapse |-> RDiv(Sxy, Sxx),
              significant |->
                IF Sxy = <<0, 1>> THEN FALSE
                ELSE IF r2 = <<1, 1>> THEN TRUE
                ELSE RLt(R(38416, 10000),
                         RDiv(RMul(r2, RInt(n - 2)), RSub(<<1, 1>>, r2)))]

\* idused of detect_potential_clouds where it goes on to normalize_bt: None
\* where the early return is taken or BT or the DEM is missing
sampled_selection(scene, pcp, water) ==
    Let((Cells(scene) \ pcp.potential_pixels) \ scene.nodata_mask,
        LAMBDA clear_pixels :
        IF guard_applies(Count(scene, clear_pixels))
           \/ scene.bt = None \/ scene.dem = None
        THEN None
        ELSE Some(IF 1000 * Count(scene, clear_pixels \ water)
                        >= Count(scene, Cells(scene) \ scene.nodata_mask)
                  THEN clear_pixels \ water ELSE clear_pixels))

\* the kinds of surface of the repeated scenes (four kinds of land with
\* two of them between the BT percentiles, or two kinds with none between
\* them), and the elevations and pixel counts they are given
RepeatKinds == {{"grass", "veg", "red", "bare"}, {"veg", "bare"}}
ReliefChoices == {100, 250, 400}
RedPixelChoices == {10000, 20000}
\* numpy seeds the global generator from the operating system: the state
\* at the first run is any of 0 .. MaxSeed
MaxSeed == 1
\* runs made on the same input
MaxRepeat == 2

RepeatScenes ==
    UNION {
        {[MakeScene("L08_OLI", "valid", kinds) EXCEPT
            !.dem = Some(relief),
            !.weight = [c \in kinds |-> IF c = "red" THEN red_pixels ELSE @[c]]] :
            relief \in [kinds -> ReliefChoices],
            red_pixels \in RedPixelChoices} :
        kinds \in RepeatKinds}

InitRepeat ==
    /\ phase = "start"
    /\ infile \in RepeatScenes
    /\ platform_data = infile
    /\ rng \in 0 .. MaxSeed
    /\ est = None
    /\ history = <<>>
    /\ composites = None
    /\ cloud_pixels = None
    /\ clouds = None
    /\ erodeIdle
    /\ auxIdle
    /\ runIdle
    /\ matchIdle
    /\ callIdle

\* _run_cloud_detection: detect_potential_clouds, whose normalize_bt
\* draws its sample from the global generator, and the update of the BT
\* band
DetectPotentialCloudsSampled ==
    /\ phase = "pixels"
    /\ \E idused \in {sampled_selection(platform_data, Get(cloud_pixels),
                                        Get(composites).water)} :
       \E sample \in {IF idused = None THEN None
                      ELSE draw_sample(platform_data, Get(platform_data.bt),
                                       Get(idused), rng)} :
       \E fit \in {IF sample = None
                   THEN [constant_only |-> TRUE, rate_lapse |-> <<0, 1>>,
                         significant |-> FALSE]
                   ELSE OLS(platform_data, Get(platform_data.bt),
                            Get(sample).drawn)} :
       \E found \in {detect_potential_clouds(platform_data, Get(cloud_pixels),
                        Get(composites).water, Get(composites).ndsi,
                        Get(composites).ndvi, Get(composites).ndbi, fit)} :
        /\ rng' = IF sample = None THEN rng ELSE rng + Get(sample).calls
        /\ est' = IF sample = None THEN None ELSE Some(fit)
        /\ IF found.status = "ZeroDivisionError"
           THEN /\ phase' = "raised"
                /\ UNCHANGED <<platform_data, clouds>>
           ELSE /\ phase' = "clouds"
                /\ clouds' = Some(found)
                /\ platform_data' =
                    IF platform_data.bt # None /\ found.bt_normalized_dem # None
                    THEN [platform_data EXCEPT !.bt = found.bt_normalized_dem]
                    ELSE platform_data
    /\ UNCHANGED <<composites, cloud_pixels, infile, history, erodeVars,
                   auxVars, runVars, matchVars, callVars>>

\* a further FMask(infile).run() in the same process: the input is read
\* again, the generator keeps its state
RunAgain ==
    /\ phase = "clouds"
    /\ Len(history) < MaxRepeat - 1
    /\ history' = Append(history, Get(clouds))
    /\ platform_data' = infile
    /\ composites' = None
    /\ cloud_pixels' = None
    /\ clouds' = None
    /\ est' = None
    /\ phase' = "start"
    /\ UNCHANGED <<infile, rng, erodeVars, auxVars, runVars, matchVars,
                   callVars>>

NextRepeat ==
    \/ CreateSpectralComposites
    \/ DetectPotentialCloudPixels
    \/ DetectPotentialCloudsSampled
    \/ RunAgain

SpecRepeat == InitRepeat /\ [][NextRepeat]_vars

\* C12: two runs on the same input return the same normalised BT and the
\* same potential clouds, whatever state the earlier run left the random
\* generator in.
C12_RunsAgree ==
    (phase = "clouds" /\ Len(history) >= 1) => Get(clouds) = history[1]

\* the BT band the run holds differs from the BT read from the file
BTChanged == platform_data.bt # infile.bt

\* C13: normalize_bt never fails, and the BT it returns differs from its
\* input only when the fitted lapse rate is negative with a p-value below
\* 0.05; with too few valid pixels, no stratum holding a pixel, a lapse
\* rate >= 0 or an insignificant one, BT comes back unchanged.
C13_UnchangedUnlessSignificantLapse ==
    /\ phase # "raised"
    /\ (phase = "clouds" /\ BTChanged) =>
        /\ est # None
        /\ ~Get(est).constant_only
        /\ RLt(Get(est).rate_lapse, <<0, 1>>)
        /\ Get(est).significant

----------------------------------------------------------------------------
(* writes to the scene record during run() *)

\* what a step leaves of the scene record: the six reflectance bands, the
\* nodata mask, the saturation mask, the sensor and the DEM
SceneFrame(scene) ==
    <<scene.band_data, scene.nodata_mask, scene.vis_saturation, scene.sensor,
      scene.weight, scene.dem>>

\* C14: a step of run() writes nothing of the scene record but CIRRUS and
\* BT.  CIRRUS is written only by the step that detects the potential
\* cloud pixels, which stores the normalised cirrus before the potential
\* clouds are detected; BT is written only by the step that detects the
\* potential clouds, which stores the DEM normalised BT before the false
\* positives and the shadows are looked for.
C14_OnlyCirrusAndBTWritten ==
    [][/\ SceneFrame(platform_data') = SceneFrame(platform_data)
       /\ platform_data'.cirrus # platform_data.cirrus =>
            /\ phase = "composites" /\ phase' = "pixels"
            /\ platform_data'.cirrus = Get(cloud_pixels').normalized_cirrus
       /\ platform_data'.bt # platform_data.bt =>
            /\ phase = "pixels" /\ phase' = "clouds"
            /\ platform_data'.bt = Get(clouds').bt_normalized_dem]_vars

\* the potential clouds are detected, CIRRUS and BT have both been
\* replaced and the other bands are as read from the file
C14_Witness ==
    /\ phase = "clouds"
    /\ \E c \in Cells(platform_data) :
        Get(platform_data.cirrus)[c] # RInt(Palette[c].CIRRUS)
    /\ platform_data.bt # None
    /\ \E c \in Cells(platform_data) :
        Get(platform_data.bt)[c] # RInt(Palette[c].BT)
    /\ \A c \in Cells(platform_data) :
        /\ platform_data.band_data[c].GREEN = Palette[c].GREEN
        /\ platform_data.band_data[c].SWIR1 = Palette[c].SWIR1

----------------------------------------------------------------------------
(* detectors/cloud_shadow/match_cloud_shadows.py: shadow.  Floats that   *)
(* leave the range of the rationals are scaled rationals [r, e], of value *)
(* r * 65536^e; Python's unbounded integers are a sign and base 65536     *)
(* digits, most significant first.                                        *)

Base == 2 ^ 16

\* math.tan, math.sin and math.cos of the sun angles of the model, which
\* are given by these values
tan(angle) == angle.tan
sin(angle) == angle.sin
cos(angle) == angle.cos

\* sun elevations: 0, 2^-31 radians, atan(1/2), 45, atan(2) and 90 degrees
\* (math.tan(math.pi / 2) is 1.6e16 in floating point)
ElevationChoices ==
    {[name |-> "0", tan |-> [r |-> <<0, 1>>, e |-> 0]],
     [name |-> "2^-31 rad", tan |-> [r |-> <<1, 32768>>, e |-> -1]],
     [name |-> "26.57", tan |-> [r |-> <<1, 2>>, e |-> 0]],
     [name |-> "45", tan |-> [r |-> <<1, 1>>, e |-> 0]],
     [name |-> "63.43", tan |-> [r |-> <<2, 1>>, e |-> 0]],
     [name |-> "90", tan |-> [r |-> <<58, 1>>, e |-> 3]]}

\* sun azimuths: the four axes and the four 3-4-5 directions
AzimuthChoices ==
    {[name |-> "0", sin |-> <<0, 1>>, cos |-> <<1, 1>>],
     [name |-> "36.87", sin |-> <<3, 5>>, cos |-> <<4, 5>>],
     [name |-> "90", sin |-> <<1, 1>>, cos |-> <<0, 1>>],
     [name |-> "143.13", sin |-> <<3, 5>>, cos |-> <<-4, 5>>],
     [name |-> "180", sin |-> <<0, 1>>, cos |-> <<-1, 1>>],
     [name |-> "216.87", sin |-> <<-3, 5>>, cos |-> <<-4, 5>>],
     [name |-> "270", sin |-> <<-1, 1>>, cos |-> <<0, 1>>],
     [name |-> "323.13", sin |-> <<-3, 5>>, cos |-> <<4, 5>>]}

\* cloud heights in pixels: 0, 200 m and 12000 m at 30 m and at 20 m
HeightChoices == {<<0, 1>>, <<20, 3>>, <<10, 1>>, <<400, 1>>, <<600, 1>>}

\* int(x) of the float x = [r, e]: truncation towards zero
int(x) ==
    LET p == Abs(x.r[1])
        q == x.r[2]
        whole == p \div q
        rest == p % q
        digits ==
            IF x.e <= -2 THEN <<0>>
            ELSE IF x.e = -1 THEN <<whole \div Base>>
            ELSE IF x.e = 0 THEN <<whole>>
            ELSE IF x.e = 1 THEN <<whole, (rest * Base) \div q>>
            ELSE <<whole, (rest * Base) \div q,
                   (((rest * Base) % q) * Base) \div q>>
    IN  [sign |-> IF \A i \in 1 .. Len(digits) : digits[i] = 0
                  THEN 0 ELSE Sign(x.r[1]),
         digits |-> digits]

\* shadow(H, sun_elev, sun_azim): the displacement in x and y, or the
\* exception raised by the division
shadow(H, sun_elev, sun_azim) ==
    IF tan(sun_elev).r = <<0, 1>> THEN [status |-> "ZeroDivisionError"]
    ELSE LET L == [r |-> RDiv(H, tan(sun_elev).r), e |-> 0 - tan(sun_elev).e]
         IN  [status |-> "returned",
              dx |-> int([r |-> RMul(RNeg(L.r), sin(sun_azim)), e |-> L.e]),
              dy |-> int([r |-> RMul(L.r, cos(sun_azim)), e |-> L.e])]

InitShadow ==
    /\ phase = "call"
    /\ callArgs \in [H : HeightChoices, sun_elev : ElevationChoices,
                     sun_azim : AzimuthChoices]
    /\ callOut = None
    /\ erodeIdle
    /\ auxIdle
    /\ runIdle
    /\ cloudIdle
    /\ matchIdle
    /\ repeatIdle

CallShadow ==
    /\ phase = "call"
    /\ phase' = "returned"
    /\ callOut' = Some(shadow(callArgs.H, callArgs.sun_elev, callArgs.sun_azim))
    /\ UNCHANGED <<callArgs, erodeVars, auxVars, runVars, cloudVars, matchVars,
                   repeatVars>>

NextShadow == CallShadow

SpecShadow == InitShadow /\ [][NextShadow]_vars

\* the Python integer lies within -(2^31 - 1) .. 2^31 - 1
FitsInt32(i) ==
    \/ Len(i.digits) = 1
    \/ Len(i.digits) = 2 /\ i.digits[1] <= 32767
    \/ Len(i.digits) = 3 /\ i.digits[1] = 0 /\ i.digits[2] <= 32767

\* C15: for every height H >= 0 and every sun elevation from 0 to 90
\* degrees, 0 included, shadow returns without raising, and both
\* displacements fit a signed 32 bit integer.
C15_ShadowFitsInt32 ==
    phase = "returned" =>
        /\ Get(callOut).status = "returned"
        /\ FitsInt32(Get(callOut).dx)
        /\ FitsInt32(Get(callOut).dy)

----------------------------------------------------------------------------
(* raster_utilities/morphology.py: enhance_line on a line raster           *)

LineDirections == {"horizontal", "vertical", "diagonal", "antidiagonal"}

\* values of the line
LineValues == {<<1, 1>>, <<3, 1>>, <<1, 3>>, <<2, 7>>, <<5000, 1>>}

\* the pixels of the line of the direction through the pixel a
line_pixels(direction, a) ==
    {p \in Pix :
        CASE direction = "horizontal" -> p[1] = a[1]
          [] direction = "vertical" -> p[2] = a[2]
          [] direction = "diagonal" -> p[1] - p[2] = a[1] - a[2]
          [] direction = "antidiagonal" -> p[1] + p[2] = a[1] + a[2]}

\* the raster of value v on the line, 0 elsewhere
line_raster(direction, a, v) ==
    [p \in Pix |-> IF p \in line_pixels(direction, a) THEN v ELSE <<0, 1>>]

InitLine ==
    /\ phase = "call"
    /\ callArgs \in [direction : LineDirections, through : Pix, v : LineValues]
    /\ callOut = None
    /\ erodeIdle
    /\ auxIdle
    /\ runIdle
    /\ cloudIdle
    /\ matchIdle
    /\ repeatIdle

CallEnhanceLine ==
    /\ phase = "call"
    /\ phase' = "returned"
    /\ callOut' = Some(enhance_line(line_raster(callArgs.direction,
                                                callArgs.through, callArgs.v)))
    /\ UNCHANGED <<callArgs, erodeVars, auxVars, runVars, cloudVars, matchVars,
                   repeatVars>>

NextLine == CallEnhanceLine

SpecLine == InitLine /\ [][NextLine]_vars

\* the line pixels whose 3 x 3 neighbourhood lies inside the raster and
\* holds three pixels of the line
InnerLinePixels ==
    {p \in line_pixels(callArgs.direction, callArgs.through) :
        /\ \A o \in square(3) : Shift(p, o) \in Pix
        /\ Cardinality({o \in square(3) :
               Shift(p, o) \in line_pixels(callArgs.direction,
                                           callArgs.through)}) = 3}

\* C16: on the raster of a one pixel wide line of value v > 0 over a zero
\* background, along one of the four template directions, enhance_line
\* returns v at every line pixel whose 3 x 3 neighbourhood lies inside the
\* raster and holds three line pixels.
C16_LinePreserved ==
    phase = "returned" =>
        \A p \in InnerLinePixels : Get(callOut)[p] = callArgs.v

C16_Witness ==
    /\ phase = "returned"
    /\ callArgs.direction = "antidiagonal"
    /\ callArgs.v = <<2, 7>>
    /\ InnerLinePixels # {}
    /\ \E p \in Pix : Get(callOut)[p] # callArgs.v

----------------------------------------------------------------------------
(* raster_utilities/morphology.py: dilate_array; main.py: FMask.run,       *)
(* lines 373-378                                                           *)

\* the layers that run() dilates
DilatedLayers == {layers.snow, layers.cloud_shadow, layers.cloud}

\* C17: dilate_array with radius 0 returns its mask unchanged; dilation is
\* monotone for every radius r >= 0 (A a subset of B implies dilate(A, r) a
\* subset of dilate(B, r)); and in run() a configured radius of 0 leaves
\* snow, cloud_shadow and cloud as the detectors produced them.
C17_DilationIdentityMonotone ==
    [][(phase = "dilate" /\ phase' = "compose") =>
        /\ \A A \in DilatedLayers : dilate_array(A, 0) = A
        /\ \A A \in DilatedLayers, B \in DilatedLayers, r \in 0 .. MaxDilate :
              A \subseteq B => dilate_array(A, r) \subseteq dilate_array(B, r)
        /\ settings.dilated_snow_px = 0 => layers'.snow = layers.snow
        /\ settings.dilated_shadow_px = 0 =>
              layers'.cloud_shadow = layers.cloud_shadow
        /\ settings.dilated_cloud_px = 0 => layers'.cloud = layers.cloud]_vars

\* after the dilation step: snow, with radius 0, is the single pixel the
\* detector produced, and the cloud layer around it has grown
C17_Witness ==
    /\ phase = "compose"
    /\ settings.dilated_snow_px = 0
    /\ settings.dilated_shadow_px = 0
    /\ settings.dilated_cloud_px = 1
    /\ layers.snow = {<<1, 1>>}
    /\ layers.cloud_shadow = {p \in Pix : p[1] = 0}
    /\ layers.cloud = Pix

----------------------------------------------------------------------------
(* detectors/cloud_shadow/match_cloud_shadows.py: the cloud heights of the *)
(* label loop, lines 51-52, 87-95 and 123-209.  The scene is a set of      *)
(* cells with weights; the cloud labels are sets of cells, in the order    *)
(* regionprops lists them.  Every label of the model has fewer than 403    *)
(* pixels, so its radius is below 8 and line 178 gives the cloud base      *)
(* temperature.                                                            *)

default_min_cloud_height == 200

default_max_cloud_height == 12000

DRY_ADIABATIC_LAPSE_RATE == <<98, 10>>

\* ground and cloud patches: pixels, BT and elevation
HeightPalette ==
    [ground |-> [pixels |-> 50000, bt |-> 2500, dem |-> 100],
     a1 |-> [pixels |-> 100, bt |-> 500, dem |-> 100],
     a2 |-> [pixels |-> 50, bt |-> 800, dem |-> 150],
     b1 |-> [pixels |-> 80, bt |-> 2300, dem |-> 900],
     c1 |-> [pixels |-> 60, bt |-> -500, dem |-> 100],
     c2 |-> [pixels |-> 20, bt |-> -9999, dem |-> -9999]]

\* the cloud labels of the model
CloudLabels == {{"a1", "a2"}, {"b1"}, {"c1", "c2"}}

\* the orders in which one, two or three of the labels are listed
LabelOrders ==
    {order \in UNION {[1 .. n -> CloudLabels] : n \in 1 .. 3} :
        \A i \in DOMAIN order, j \in DOMAIN order :
            i # j => order[i] # order[j]}

\* (temp_test_low, temp_test_high) handed over by detect_potential_clouds
TempTestChoices == {<<2000, 2800>>, <<1500, 2500>>}

\* the scene of the labels of order over the ground
HeightScene(order, with_bt, with_dem) ==
    LET cells == {"ground"} \cup UNION {order[i] : i \in DOMAIN order}
    IN  [weight |-> [c \in cells |-> HeightPalette[c].pixels],
         nodata_mask |-> {},
         bt |-> IF with_bt THEN Some([c \in cells |-> RInt(HeightPalette[c].bt)])
                ELSE None,
         dem |-> IF with_dem
                 THEN Some([c \in cells |-> RInt(HeightPalette[c].dem)])
                 ELSE None]

\* lines 87-95: base_dem_height
base_dem_height_of(scene) ==
    IF scene.dem = None THEN <<0, 1>>
    ELSE LET mm == {c \in Cells(scene) \ scene.nodata_mask :
                       Get(scene.dem)[c] # RInt(dem_nodata)}
         IN  IF Count(scene, mm) > 0
             THEN percentile(scene, Get(scene.dem), mm, 1, 100000)
             ELSE <<0, 1>>

\* lines 146-159: cloud_base_height of the label
cloud_base_height_of(scene, shadow_template, base_dem_height) ==
    IF scene.dem = None THEN <<0, 1>>
    ELSE LET dem_mask == {c \in shadow_template :
                             Get(scene.dem)[c] # RInt(dem_nodata)}
         IN  IF Count(scene, dem_mask) > 0
             THEN RSub(percentile(scene, Get(scene.dem), dem_mask, 825, 1000),
                       base_dem_height)
             ELSE <<0, 1>>

\* np.min(bt_cloud)
np_min(scene, raster, mask) == Sorted(scene, raster, mask, 0)

\* lines 164-203: the height interval heights = <<min_cloud_height,
\* max_cloud_height>> after the label
tighten_heights(heights, scene, shadow_template, temp_test_low, temp_test_high) ==
    IF scene.bt = None THEN heights
    ELSE LET bt_mask == {c \in shadow_template :
                            Get(scene.bt)[c] # RInt(-9999)}
         IN  IF Count(scene, bt_mask) = 0 THEN heights
             ELSE Let(np_min(scene, Get(scene.bt), bt_mask),
                  LAMBDA cloud_base_temperature :
                  <<RMax(heights[1],
                         RDiv(RMul(RInt(10),
                                   RSub(RInt(temp_test_low - 400),
                                        cloud_base_temperature)),
                              DRY_ADIABATIC_LAPSE_RATE)),
                    RMin(heights[2],
                         RMul(RInt(10),
                              RSub(RInt(temp_test_high + 400),
                                   cloud_base_temperature)))>>)

RECURSIVE label_loop(_, _, _, _, _, _)
\* lines 123-209: the heights of the labels from the i-th on, with the
\* interval heights left by the labels before it
label_loop(scene, order, i, heights, temp_test_low, temp_test_high) ==
    IF i > Len(order) THEN <<>>
    ELSE Let(tighten_heights(heights, scene, order[i], temp_test_low,
                             temp_test_high), LAMBDA tightened :
         <<[cloud_base_height |->
                cloud_base_height_of(scene, order[i], base_dem_height_of(scene)),
            min_cloud_height |-> tightened[1],
            max_cloud_height |-> tightened[2],
            H1_px |-> RDiv(tightened[1], RInt(out_resolution)),
            H2_px |-> RDiv(tightened[2], RInt(out_resolution))]>>
         \o label_loop(scene, order, i + 1, tightened, temp_test_low,
                       temp_test_high))

\* the heights of every label, from the defaults of lines 51-52 on
cloud_heights(scene, order, temp_test_low, temp_test_high) ==
    label_loop(scene, order, 1,
               <<RInt(default_min_cloud_height), RInt(default_max_cloud_height)>>,
               temp_test_low, temp_test_high)

InitHeights ==
    /\ phase = "call"
    /\ \E order \in LabelOrders, with_bt \in BOOLEAN, with_dem \in BOOLEAN,
          temp_test \in TempTestChoices :
          callArgs = [scene |-> HeightScene(order, with_bt, with_dem),
                      order |-> order,
                      temp_test_low |-> temp_test[1],
                      temp_test_high |-> temp_test[2]]
    /\ callOut = None
    /\ erodeIdle
    /\ auxIdle
    /\ runIdle
    /\ cloudIdle
    /\ matchIdle
    /\ repeatIdle

CallCloudHeights ==
    /\ phase = "call"
    /\ phase' = "returned"
    /\ callOut' = Some(cloud_heights(callArgs.scene, callArgs.order,
                                     callArgs.temp_test_low,
                                     callArgs.temp_test_high))
    /\ UNCHANGED <<callArgs, erodeVars, auxVars, runVars, cloudVars, matchVars,
                   repeatVars>>

NextHeights == CallCloudHeights

SpecHeights == InitHeights /\ [][NextHeights]_vars

\* the interval of the i-th label from the defaults and its own BT
OwnInterval(i) ==
    tighten_heights(<<RInt(default_min_cloud_height),
                      RInt(default_max_cloud_height)>>,
                    callArgs.scene, callArgs.order[i],
                    callArgs.temp_test_low, callArgs.temp_test_high)

\* C18: the height interval searched for a cloud label starts from the
\* defaults [200, 12000] m and is tightened by the BT of that label alone,
\* whatever the other labels and their order.
C18_IntervalFromOwnBT ==
    phase = "returned" =>
        \A i \in DOMAIN callArgs.order :
            /\ Get(callOut)[i].min_cloud_height = OwnInterval(i)[1]
            /\ Get(callOut)[i].max_cloud_height = OwnInterval(i)[2]


\* C20: with a DEM, the minimum cloud height from which the shadow of a
\* label is searched is the minimum height of the label raised by its
\* cloud_base_height, the high percentile of the DEM over the label less
\* the base elevation of the scene.
C20_MinHeightRaisedByTerrain ==
    (phase = "returned" /\ callArgs.scene.dem # None) =>
        \A i \in DOMAIN callArgs.order :
            Get(callOut)[i].H1_px =
                RDiv(RAdd(Get(callOut)[i].min_cloud_height,
                          Get(callOut)[i].cloud_base_height),
                     RInt(out_resolution))

----------------------------------------------------------------------------
(* detectors/cloud/potential_clouds.py: the land branch, lines 100-125 and *)
(* 181-187                                                                 *)

\* the temperature branch ran on the BT of the scene: temperature
\* probability in place of the HOT probability, temperature bounds from the
\* BT percentiles over idused, and every extremely cold pixel a cloud
TemperatureBranchTaken ==
    /\ Get(clouds).land_probability_temperature # None
    /\ Get(clouds).land_probability_brightness = None
    /\ Get(clouds).temp_test_low =
          RSub(percentile(platform_data, Get(platform_data.bt),
                          Get(clouds).clear_land, 7, 40), RInt(400))
    /\ Get(clouds).temp_test_high =
          RAdd(percentile(platform_data, Get(platform_data.bt),
                          Get(clouds).clear_land, 33, 40), RInt(400))
    /\ \A c \in Cells(platform_data) \ platform_data.nodata_mask :
          RLt(Get(platform_data.bt)[c],
              RSub(Get(clouds).temp_test_low, RInt(3500)))
              => c \in Get(clouds).cloud

\* the HOT branch ran
BrightnessBranchTaken ==
    /\ Get(clouds).land_probability_brightness # None
    /\ Get(clouds).land_probability_temperature = None

\* C19: past the guard, detect_potential_clouds takes the temperature
\* branch whenever BT is present, with or without a DEM (temperature
\* probability, temp_test_low/high from the BT percentiles over idused less
\* and plus 400, extremely cold override), and the HOT brightness branch
\* only when BT is absent.
C19_LandBranchByBT ==
    (phase = "clouds" /\ Get(clouds).status = "full") =>
        IF platform_data.bt # None THEN TemperatureBranchTaken
        ELSE BrightnessBranchTaken

----------------------------------------------------------------------------
(* detectors/cloud_shadow/match_cloud_shadows.py: the similarity of one    *)
(* displacement, lines 271-350                                             *)

\* the labelled clouds of the call, where the matching is not skipped
MatchedLabels ==
    IF skip_matching(matchArgs.sum_clear_pixels,
                     matchArgs.cloud \ matchArgs.nodata_mask,
                     matchArgs.nodata_mask)
    THEN {}
    ELSE Components(matchArgs.cloud \ matchArgs.nodata_mask)

\* the steps of the search
Steps == 0 .. (num_steps_of(matchArgs.shift) - 1)

\* the pixels of the cloud c whose position shifted by d is off the cloud
OffCloud(c, d) == {p \in c : Shift(p, d) \notin c}

\* the potential shadow pixels under the cloud c shifted by d
ShadowUnder(c, d) ==
    {p \in c : Shift(p, d) \in matchArgs.potential_cloud_shadow_pixels}

\* C21: at every sampled displacement, dx = 0 or dy = 0 included, the
\* footprint scored leaves out every pixel of the cloud whose shifted
\* position falls on the cloud itself, and the similarity recorded is the
\* share of that trimmed footprint that lies over potential shadow.
C21_TrimmedAtEveryDisplacement ==
    phase = "returned" =>
        \A c \in MatchedLabels, i \in Steps :
            LET d == displacement(matchArgs.shift, i)
                scored == similarity_at(c, matchArgs.potential_cloud_shadow_pixels,
                                        matchArgs.all_water, matchArgs.shift, i)
            IN  /\ trimmed_template(c, d) = OffCloud(c, d)
                /\ scored # None =>
                      Get(scored).similarity =
                          R(Cardinality(OffCloud(c, d) \cap ShadowUnder(c, d)),
                            Cardinality(OffCloud(c, d)))

----------------------------------------------------------------------------
(* detectors/cloud_shadow/match_cloud_shadows.py: the scan for the first   *)
(* maximum and the painting, lines 372-452                                 *)

\* similarity_max_list and index_candidate_list of the cloud c
ListOf(c) ==
    similarity_list(c, matchArgs.potential_cloud_shadow_pixels,
                    matchArgs.all_water, matchArgs.shift,
                    num_steps_of(matchArgs.shift))

\* the outcome of the scan over the list of the cloud c
ScanOf(c) == first_maximum(ListOf(c), matchArgs.shift, 1, <<0, 1>>, 1)

\* the displacements painted for the cloud c
PaintedFor(c) ==
    matched_displacements(c, matchArgs.potential_cloud_shadow_pixels,
                          matchArgs.all_water, matchArgs.shift)

\* sqrt(dx * dx + dy * dy) <= neighbour_tolerance = 4.25
NearCloud(d) == 16 * (d[1] * d[1] + d[2] * d[2]) <= 289

\* C22: a similarity maximum reached at a displacement within the
\* neighbour tolerance of 4.25 px is rejected: the cloud shifted by that
\* displacement is not painted as the match of that cloud.
C22_NearMaximumRejected ==
    phase = "returned" =>
        \A c \in MatchedLabels :
            ListOf(c) # <<>> =>
                LET d == displacement(matchArgs.shift,
                                      ListOf(c)[ScanOf(c).ind_max].index)
                IN  NearCloud(d) => d \notin PaintedFor(c)


\* the samples of the cloud c scanned up to the stop sample
Scanned(c) == 1 .. ScanOf(c).ind

\* the largest similarity among the scanned samples of the cloud c
RunningMax(c) ==
    LET k == CHOOSE k \in Scanned(c) :
                \A j \in Scanned(c) :
                    RLe(ListOf(c)[j].similarity, ListOf(c)[k].similarity)
    IN  ListOf(c)[k].similarity

\* the cloud c shifted by d, clipped to the raster
ShiftedFootprint(c, d) == {p \in Pix : \E q \in c : p = Shift(q, d)}

C23_WitnessLow ==
    /\ phase = "returned"
    /\ \E c \in MatchedLabels :
          /\ ListOf(c) # <<>>
          /\ ~RLt(<<3, 10>>, RunningMax(c))
          /\ PaintedFor(c) = {}

----------------------------------------------------------------------------
(* detectors/cloud/potential_cloud_pixels.py: normalize_cirrus_dem with a  *)
(* DEM, lines 134-153                                                      *)

\* the pixels of valid elevation
ValidDem ==
    IF platform_data.dem = None THEN {}
    ELSE {c \in Cells(platform_data) : Get(platform_data.dem)[c] # dem_nodata}

\* the 100 m elevation bin of the cell c, counted from dem_start
DemBin(c) ==
    LET dem_start == Trunc(percentile(platform_data,
                               [d \in Cells(platform_data) |->
                                   RInt(Get(platform_data.dem)[d])],
                               ValidDem, 1, 100000))
    IN  (Get(platform_data.dem)[c] - dem_start) \div 100

\* the clear-sky pixels with data in the elevation bin of the cell c
ClearSkyInBin(c) ==
    {d \in (Cells(platform_data) \ Get(cloud_pixels).potential_pixels)
              \ platform_data.nodata_mask :
        d \in ValidDem /\ DemBin(d) = DemBin(c)}

\* the CIRRUS band as read from the file
InputCirrus == [c \in Cells(platform_data) |-> RInt(Palette[c].CIRRUS)]

\* C24: with a DEM of at least 100 valid pixels, the normalised cirrus of
\* every pixel with data is max(0, CIRRUS - p2), p2 the 2nd percentile of
\* CIRRUS over the clear-sky pixels with data in the same 100 m elevation
\* bin as the pixel.
C24_CirrusByElevationBin ==
    (cloud_pixels # None /\ platform_data.cirrus # None
        /\ Count(platform_data, ValidDem) >= 100) =>
        \A c \in (Cells(platform_data) \ platform_data.nodata_mask) \cap ValidDem :
            ClearSkyInBin(c) # {} =>
                Get(Get(cloud_pixels).normalized_cirrus)[c] =
                    RMax(<<0, 1>>,
                         RSub(InputCirrus[c],
                              percentile(platform_data, InputCirrus,
                                         ClearSkyInBin(c), 2, 100)))

----------------------------------------------------------------------------
(* raster_utilities/morphology.py: the CDI gate of erode_commissons, lines *)
(* 110-149, on labelled objects.  The cloud that reaches line 113 is a set *)
(* of 8-connected objects; an object is a set of cells with weights (the   *)
(* pixels of the cell) and the CDI of each cell.                           *)

\* objects: pixels and CDI of their cells
ObjectPalette ==
    [city    |-> [weight |-> [core |-> 9999, rim |-> 1],
                  cdi |-> [core |-> <<-1, 5>>, rim |-> <<-1, 5>>]],
     bigcity |-> [weight |-> [core |-> 10000, rim |-> 1],
                  cdi |-> [core |-> <<-1, 5>>, rim |-> <<-1, 5>>]],
     deck    |-> [weight |-> [core |-> 9998, rim |-> 1],
                  cdi |-> [core |-> <<-1, 5>>, rim |-> <<-3, 5>>]],
     town    |-> [weight |-> [core |-> 9, rim |-> 16],
                  cdi |-> [core |-> <<-1, 5>>, rim |-> <<-1, 5>>]],
     cumulus |-> [weight |-> [core |-> 9, rim |-> 16],
                  cdi |-> [core |-> <<-3, 5>>, rim |-> <<-7, 10>>]],
     edge    |-> [weight |-> [core |-> 9, rim |-> 16],
                  cdi |-> [core |-> <<-1, 2>>, rim |-> <<-1, 5>>]],
     mixed   |-> [weight |-> [core |-> 1, rim |-> 2],
                  cdi |-> [core |-> <<-3, 5>>, rim |-> <<-1, 5>>]],
     speck   |-> [weight |-> [core |-> 1, rim |-> 1],
                  cdi |-> [core |-> <<-9, 10>>, rim |-> <<-9, 10>>]]]

\* np.sum over the pixels of the object
area(o) == Count(ObjectPalette[o], Cells(ObjectPalette[o]))

\* remove_small_objects keeping the objects above min_size only
remove_small_objects_above(objects, min_size) ==
    {o \in objects : area(o) > min_size}

\* skimage.morphology.remove_small_objects(ar, min_size, connectivity=2):
\* the objects smaller than min_size are removed
remove_small_objects_of(objects, min_size) ==
    {o \in objects : area(o) >= min_size}

\* lines 113-149 on the objects of the cloud
cdi_gate(cloud) ==
    Let(remove_small_objects_of(cloud, large_object_size), LAMBDA large_objects :
    Let(cloud \ large_objects, LAMBDA small_objects :
    Let({o \in small_objects :
            \E c \in Cells(ObjectPalette[o]) :
                RLt(ObjectPalette[o].cdi[c], <<-1, 2>>)},
        LAMBDA small_objects_excluding_urban :
    Let(small_objects \ small_objects_excluding_urban, LAMBDA bright_surfaces :
        remove_small_objects_of(cloud \ bright_surfaces, very_small_object_size)))))

InitGate ==
    /\ phase = "call"
    /\ callArgs \in [cloud : SUBSET DOMAIN ObjectPalette]
    /\ callOut = None
    /\ erodeIdle
    /\ auxIdle
    /\ runIdle
    /\ cloudIdle
    /\ matchIdle
    /\ repeatIdle

CallCdiGate ==
    /\ phase = "call"
    /\ phase' = "returned"
    /\ callOut' = Some(cdi_gate(callArgs.cloud))
    /\ UNCHANGED <<callArgs, erodeVars, auxVars, runVars, cloudVars, matchVars,
                   repeatVars>>

NextGate == CallCdiGate

SpecGate == InitGate /\ [][NextGate]_vars

\* the object holds a pixel of CDI < -0.5
Confident(o) ==
    \E c \in Cells(ObjectPalette[o]) :
        ObjectPalette[o].weight[c] > 0 /\ RLt(ObjectPalette[o].cdi[c], <<-1, 2>>)

\* C25 (as claimed): with CDI, every object of more than 10000 pixels is
\* kept whatever its CDI, and an object of 10000 pixels or fewer is kept
\* if and only if it holds a pixel of CDI < -0.5 and has at least 3 pixels.
C25_LargeAbove10000 ==
    phase = "returned" =>
        \A o \in callArgs.cloud :
            IF area(o) > 10000 THEN o \in Get(callOut)
            ELSE o \in Get(callOut) <=> (Confident(o) /\ area(o) >= 3)

\* C25 (amended): with CDI, every object of at least 10000 pixels is kept
\* whatever its CDI, and an object of fewer than 10000 pixels is kept if
\* and only if it holds a pixel of CDI < -0.5 and has at least 3 pixels.
C25_LargeFrom10000 ==
    phase = "returned" =>
        \A o \in callArgs.cloud :
            IF area(o) >= 10000 THEN o \in Get(callOut)
            ELSE o \in Get(callOut) <=> (Confident(o) /\ area(o) >= 3)

\* the gate has kept an unconfident object of 10000 pixels and a confident
\* 5 x 5 blob, and removed an unconfident 5 x 5 blob and a confident pair
C25_Witness ==
    /\ phase = "returned"
    /\ {"city", "town", "cumulus", "speck"} \subseteq callArgs.cloud
    /\ Get(callOut) \cap {"city", "town", "cumulus", "speck"} = {"city", "cumulus"}

----------------------------------------------------------------------------
(* detectors/water.py: detect_water with GSWO data; main.py, lines 321-336 *)

\* lines 41-51 without the limit of 90
gswater_occur_uncapped(scene, gswo, water) ==
    IF Count(scene, water) > 0
    THEN RSub(percentile(scene, gswo, water, 7, 40), RInt(5))
    ELSE RInt(90)

\* lines 41-51: gswater_occur
gswater_occur_of(scene, gswo, water) ==
    Let(IF Count(scene, water) > 0
        THEN RSub(percentile(scene, gswo, water, 7, 40), RInt(5))
        ELSE RInt(90), LAMBDA gswater_occur :
        IF RLt(RInt(90), gswater_occur) THEN RInt(90) ELSE gswater_occur)

\* line 61 without the snow test
augment_water_over_snow(water, water_gs, snow) == water \cup water_gs

\* line 61: water where GSWO says so and snow does not
augment_water(water, water_gs, snow) == water \cup (water_gs \ snow)

RECURSIVE np_sum(_, _, _)
\* np.sum(raster) over the cells of mask
np_sum(scene, raster, mask) ==
    IF mask = {} THEN <<0, 1>>
    ELSE LET c == CHOOSE c \in mask : TRUE
         IN  RAdd(RMul(RInt(scene.weight[c]), raster[c]),
                  np_sum(scene, raster, mask \ {c}))

\* detect_water: water and all_water
detect_water_gswo(scene, ndvi, snow, gswo) ==
    Let(detect_water(scene, ndvi), LAMBDA water :
        IF gswo = None \/ snow = None THEN [water |-> water, all_water |-> water]
        ELSE IF RLe(np_sum(scene, Get(gswo), Cells(scene)), <<0, 1>>)
        THEN [water |-> water, all_water |-> water]
        ELSE Let(gswater_occur_of(scene, Get(gswo), water), LAMBDA gswater_occur :
             IF RLt(gswater_occur, <<0, 1>>)
             THEN [water |-> water, all_water |-> water]
             ELSE Let({c \in Cells(scene) : RLt(gswater_occur, Get(gswo)[c])},
                      LAMBDA water_gs :
                  [water |-> augment_water(water, water_gs, Get(snow))
                                \ scene.nodata_mask,
                   all_water |-> (water \cup water_gs) \ scene.nodata_mask])))

\* the kinds of surface of the water scenes
WaterKinds == {"water", "cloudwater", "ice", "veg", "nodata"}

\* water occurrence, in percent
GswoValues == {0, 60, 95, 100}

InitWater ==
    /\ phase = "call"
    /\ \E sensor \in Sensors, kinds \in SubsetsUpTo(WaterKinds, MaxKinds) \ {{}} :
       \E gswo \in {None} \cup {Some([c \in kinds |-> RInt(g[c])]) :
                                   g \in [kinds -> GswoValues]} :
          callArgs = [scene |-> MakeScene(sensor, "none", kinds), gswo |-> gswo]
    /\ callOut = None
    /\ erodeIdle
    /\ auxIdle
    /\ runIdle
    /\ cloudIdle
    /\ matchIdle
    /\ repeatIdle

\* FMask.run, lines 321-336: detect_snow, then detect_water
DetectSnowAndWater ==
    /\ phase = "call"
    /\ phase' = "returned"
    /\ callOut' =
        Let(detect_snow(callArgs.scene, create_ndsi(callArgs.scene)), LAMBDA snow :
        Let(detect_water_gswo(callArgs.scene, create_ndvi(callArgs.scene),
                              Some(snow), callArgs.gswo), LAMBDA found :
            Some([snow |-> snow, water |-> found.water,
                  all_water |-> found.all_water])))
    /\ UNCHANGED <<callArgs, erodeVars, auxVars, runVars, cloudVars, matchVars,
                   repeatVars>>

NextWater == DetectSnowAndWater

SpecWater == InitWater /\ [][NextWater]_vars

\* the spectral water test on the pixels with data
BaseWater == detect_water(callArgs.scene, create_ndvi(callArgs.scene))

\* min(90, 17.5th percentile of GSWO over the base water - 5), or 90
\* without base water
Occurrence ==
    IF BaseWater = {} THEN RInt(90)
    ELSE RMin(RInt(90),
              RSub(percentile(callArgs.scene, Get(callArgs.gswo), BaseWater, 7, 40),
                   RInt(5)))

\* the pixels whose GSWO exceeds the occurrence level
AboveOccurrence ==
    {c \in Cells(callArgs.scene) : RLt(Occurrence, Get(callArgs.gswo)[c])}

\* GSWO is present, not zero everywhere, and the occurrence level is not
\* negative
AugmentationApplies ==
    /\ callArgs.gswo # None
    /\ \E c \in Cells(callArgs.scene) : Get(callArgs.gswo)[c] # <<0, 1>>
    /\ ~RLt(Occurrence, <<0, 1>>)

\* C26: where the GSWO augmentation applies, water = (base or (GSWO > occ
\* and not snow)) and not nodata, and all_water = (base or GSWO > occ) and
\* not nodata; where GSWO is absent, zero everywhere or occ < 0, water =
\* all_water = base and not nodata.
C26_WaterWithGswo ==
    phase = "returned" =>
        IF AugmentationApplies
        THEN /\ Get(callOut).water =
                  (BaseWater \cup (AboveOccurrence \ Get(callOut).snow))
                      \ callArgs.scene.nodata_mask
             /\ Get(callOut).all_water =
                  (BaseWater \cup AboveOccurrence) \ callArgs.scene.nodata_mask
        ELSE /\ Get(callOut).water = BaseWater
             /\ Get(callOut).all_water = BaseWater

\* the occurrence level was limited to 90 and a land pixel of occurrence 95
\* became water
C26_Witness ==
    /\ phase = "returned"
    /\ AugmentationApplies
    /\ Occurrence = RInt(90)
    /\ BaseWater # {}
    /\ "veg" \in Get(callOut).water
    /\ Get(callArgs.gswo)["veg"] = RInt(95)

\* C27: the water mask of detect_water and the snow mask of detect_snow on
\* the same bands have no pixel in common, with or without GSWO; only
\* all_water may cover snow.
C27_WaterExcludesSnow ==
    phase = "returned" => Get(callOut).water \cap Get(callOut).snow = {}

\* a snow pixel of high water occurrence is in all_water and not in water
C27_Witness ==
    /\ phase = "returned"
    /\ AugmentationApplies
    /\ \E c \in Get(callOut).snow :
          c \in Get(callOut).all_water /\ c \notin Get(callOut).water
    /\ Get(callOut).water # {}

----------------------------------------------------------------------------
(* main.py: FMask.__init__, the end of FMask.run, and FMask.save_results.   *)
(* An attribute the constructor only annotates is unassigned: `results` is *)
(* None (no value) until _compute_final_results assigns it, and reading it  *)
(* before that raises AttributeError.                                       *)

\* the out_name arguments: a name with and without the .tif suffix
OutNames == {<<"mask", ".tif">>, <<"mask", "">>}

\* the argument of save_results: None (use the attribute), True or False
SaveArgs == {None, Some(TRUE), Some(FALSE)}

\* lines 719-723: the path of the cloud probability raster
probability_path(outfile_path) == <<outfile_path[1], "_cloud-probability.tif">>

\* save_results
save_results(res, out, save_cloud_prob_arg) ==
    IF res = None
    THEN [out EXCEPT !.raised = Some("AttributeError")]
    ELSE IF Get(res) = None
    THEN [out EXCEPT !.raised = Some("ValueError")]
    ELSE Let(IF save_cloud_prob_arg # None THEN Get(save_cloud_prob_arg)
             ELSE callArgs.save_cloud_prob, LAMBDA save_cloud_prob :
         [files |-> out.files \cup {callArgs.out_name}
                 \cup (IF save_cloud_prob
                       THEN {probability_path(callArgs.out_name)} ELSE {}),
          raised |-> None])

\* FMask.__init__ with auto_run = False
InitSave ==
    /\ phase = "constructed"
    /\ settings \in SettingChoices
    /\ layers \in [nodata_mask : {{}, {<<1, 1>>}}, water : {{}, {<<1, 1>>}},
                   snow : {{}}, cloud_shadow : {{}}, cloud : LayerChoices]
    /\ results = None
    /\ callArgs \in [auto_save : BOOLEAN, save_cloud_prob : BOOLEAN,
                     out_name : OutNames]
    /\ callOut = [files |-> {}, raised |-> None]
    /\ erodeIdle
    /\ auxIdle
    /\ cloudIdle
    /\ matchIdle
    /\ repeatIdle

\* FMask.run, lines 373-388, on the layers the detectors produce
RunToResults ==
    /\ phase' = "run"
    /\ layers' = [layers EXCEPT
            !.snow = IF settings.dilated_snow_px > 0
                     THEN dilate_array(@, settings.dilated_snow_px) ELSE @,
            !.cloud_shadow = IF settings.dilated_shadow_px > 0
                     THEN dilate_array(@, settings.dilated_shadow_px) ELSE @,
            !.cloud = IF settings.dilated_cloud_px > 0
                     THEN dilate_array(@, settings.dilated_cloud_px) ELSE @]
    /\ results' = Some(compute_final_results(layers', settings))
    /\ callOut' = IF callArgs.auto_save
                  THEN save_results(results', [callOut EXCEPT !.raised = None],
                                    None)
                  ELSE [callOut EXCEPT !.raised = None]
    /\ UNCHANGED <<settings, callArgs, erodeVars, auxVars, cloudVars, matchVars,
                   repeatVars>>

\* FMask.save_results called by the user
SaveResults(save_cloud_prob) ==
    /\ callOut' = save_results(results, callOut, save_cloud_prob)
    /\ UNCHANGED <<phase, settings, layers, results, callArgs, erodeVars, auxVars,
                   cloudVars, matchVars, repeatVars>>

NextSave == RunToResults \/ \E a \in SaveArgs : SaveResults(a)

SpecSave == InitSave /\ [][NextSave]_vars

\* C28: save_results on an object whose run() has not produced results raises
\* ValueError and writes no file.
C28_ValueErrorBeforeRun ==
    [][(results = None /\ \E a \in SaveArgs : SaveResults(a)) =>
           /\ callOut'.raised = Some("ValueError")
           /\ callOut'.files = callOut.files]_vars

----------------------------------------------------------------------------
(* main.py: _run_cloud_shadow_detection after detect_potential_clouds, on  *)
(* scenes made of kinds of surface.  The stage is followed up to the        *)
(* background values of detect_potential_cloud_shadow_pixels; the shadow    *)
(* raster itself is followed on the grids of SpecRun and SpecMatch.         *)

\* low_percent of detect_potential_cloud_shadow_pixels, in thousandths
low_percent == 175

\* detect_potential_cloud_shadow_pixels, lines 44-45: the background of NIR
\* and SWIR1 over clear_land.  The early return of detect_potential_clouds
\* hands over np.zeros(nir.shape), an array of floats, and indexing with it
\* raises IndexError.
shadow_backgrounds(scene, potential_clouds) ==
    IF potential_clouds.status = "guard"
    THEN [raised |-> Some("IndexError"), nir_background |-> None,
          swir1_background |-> None]
    ELSE [raised |-> None,
          nir_background |-> Some(percentile(scene,
                [c \in Cells(scene) |-> RInt(scene.band_data[c].NIR)],
                potential_clouds.clear_land, low_percent, 1000)),
          swir1_background |-> Some(percentile(scene,
                [c \in Cells(scene) |-> RInt(scene.band_data[c].SWIR1)],
                potential_clouds.clear_land, low_percent, 1000))]

\* _run_cloud_shadow_detection: the branch taken and what the potential
\* shadow detection computes first
run_cloud_shadow_detection(scene, potential_clouds) ==
    IF potential_clouds.sum_clear_pixels < pixel_limit
    THEN [branch |-> "skip", raised |-> None, nir_background |-> None,
          swir1_background |-> None]
    ELSE Let(shadow_backgrounds(scene, potential_clouds), LAMBDA found :
         [branch |-> "detect", raised |-> found.raised,
          nir_background |-> found.nir_background,
          swir1_background |-> found.swir1_background])

\* FMask.run, lines 366-368: the shadow stage
RunShadowStage ==
    /\ phase = "clouds"
    /\ phase' = "shadow"
    /\ callOut' = Some(run_cloud_shadow_detection(platform_data, Get(clouds)))
    /\ UNCHANGED <<callArgs, erodeVars, auxVars, runVars, cloudVars, matchVars,
                   repeatVars>>

NextStage ==
    \/ CreateSpectralComposites
    \/ DetectPotentialCloudPixels
    \/ DetectPotentialClouds
    \/ RunShadowStage

SpecStage == InitClouds /\ [][NextStage]_vars

\* C29: whenever detect_potential_clouds returned through its clear-pixel
\* guard, the shadow stage takes its skip branch, does not evaluate the
\* potential shadow detection with the placeholder clear_land, and raises
\* nothing.
C29_GuardSkipsShadowStage ==
    (phase = "shadow" /\ Get(clouds).status = "guard") =>
        /\ Get(callOut).branch = "skip"
        /\ Get(callOut).raised = None

----------------------------------------------------------------------------
(* erode_commissons never adds cloud *)

\* the input cloud of the i-th application of SpecErode
InputCloud(i) == IF i = 1 THEN ecArgs.cloud ELSE ecOut[i - 1]

\* lines 62-74: the cloud without the eroded-away false-positive pixels
AfterErosion(cloud) ==
    cloud \ {p \in Pix : /\ p \notin binary_erosion(cloud, disk(ecArgs.erode_pixels))
                         /\ p \in ecArgs.pfp}

\* the connected components of the cloud none of whose pixels remains
Vanished(cloud) == {c \in Components(cloud) : c \cap AfterErosion(cloud) = {}}

\* C30: every pixel of the output of erode_commissons is a pixel of its
\* input cloud, with or without CDI, and a connected component of the input
\* none of whose pixels remains after the removal of the eroded-away
\* false-positive pixels has no land pixel in the output.
C30_NeverAddsCloud ==
    \A i \in 1 .. Len(ecOut) :
        /\ ecOut[i] \subseteq InputCloud(i)
        /\ \A c \in Vanished(InputCloud(i)) : c \cap ecOut[i] \subseteq ecArgs.water

\* a component vanished within reach of the dilation of a component that
\* stayed, and the output is the component that stayed
C30_Witness ==
    /\ Len(ecOut) = 1
    /\ ecArgs.erode_pixels >= 1
    /\ ecOut[1] # {}
    /\ \E c \in Vanished(ecArgs.cloud) :
          /\ c \cap ecArgs.water = {}
          /\ c \cap binary_dilation(AfterErosion(ecArgs.cloud),
                                    disk(2 * ecArgs.erode_pixels)) # {}
          /\ c \cap ecOut[1] = {}

====
